---- MODULE Spec2Model ----
(***************************************************************************)
(* SUT discovery service: the device registry, the WebSocket connection    *)
(* manager and the registration / trust-exchange protocol, as driven by    *)
(* the endpoints of sut_discovery_service/api/suts.py.                     *)
(*                                                                         *)
(* The endpoints (websocket_sut_endpoint, delete_sut, cleanup_stale_devices,*)
(* trigger_ssh_exchange, ...) are translated from the source.  The device  *)
(* registry, the connection manager and the key store live in packages     *)
(* (..discovery, ..ssh.key_store) whose code is not part of the source     *)
(* tree; their operations are modelled from the design specification.      *)
(***************************************************************************)
EXTENDS Integers, Sequences, FiniteSets, TLC

----------------------------------------------------------------------------
(* Bounds of the model *)

MaxTransports == 2      \* WebSocket transports open at the same time
MaxSessions == 2        \* sessions admitted during a run
MaxSweepSessions == 2   \* the same, where the clock runs
MaxTrustSessions == 2   \* the same, where the trust exchange runs
MaxRebinds == 4         \* sessions admitted during a run of one device alone
MaxKeySessions == 3     \* the same, where the key store and the key manager may fail
MaxLiveSessions == 2    \* the same, where transports close under the handler
MaxAdminSessions == 2   \* the same, where every administrative request is issued
MaxPairSessions == 2    \* the same, where several operators pair and unpair
MaxSendSessions == 2    \* the same, where messages are sent to devices on request
MaxIsolateSessions == 2 \* the same, where two devices send every kind of message
MaxStoreSessions == 2   \* the same, where devices offer well-formed and malformed keys
MaxManagerSessions == 1 \* the same, where the Master key manager is called directly
MaxFeedSessions == 1    \* the same, where observers follow the notification feed
MaxStreams == 2         \* requests for the notification feed during a run
MaxTime == 1            \* the clock runs 0..MaxTime
MaxTimeout == 1         \* stale timeouts range over 0..MaxTimeout

(* Values the registry package fixes (not in the source tree) *)
HistoryCap == 2             \* N: binding_history keeps the most recent N entries
DefaultStaleTimeout == 1    \* stale timeout after construction

Ids == {"d1", "d2"}                 \* unique_id values (the sut_id of the URL)
IPs == {"ip1", "ip2"}               \* ip values a payload may carry
Keys == {"k1"}                      \* SSH public keys a payload may carry
Names == {"n1"}                     \* display names an operator may set
DefaultUser == "user"               \* PairRequest.paired_by when the body omits it
Users == {"u1", "u2"}               \* other paired_by values
MalformedKey == "bad"               \* a key without a recognized key-type prefix
Missing == "missing"                \* a key absent from a JSON object
UnknownIp == "unknown"              \* init_data.get("ip", "unknown")
NoTime == 0 - 1                     \* a timestamp that is None
KeepaliveInterval == 1              \* wait_for(queue.get(), timeout=30.0), in ticks
Transports == 1..MaxTransports
Streams == 1..MaxStreams            \* the requests of GET /suts/events, each with its queue
Times == 0..MaxTime

VARIABLES
    devices,        \* registry.devices: unique_id -> DeviceRecord
    ip_to_id,       \* registry.ip_to_id_mapping: ip -> unique_id
    paired_store,   \* the durably persisted set of paired unique_ids
    stale_timeout,  \* registry stale timeout (seconds)
    trust_store,    \* key store: the device public keys the Master trusts
    connections,    \* ws_manager: unique_id -> transport of the live session
    session_seq,    \* ws_manager: the session_id last assigned per unique_id
    closed,         \* transports the server has closed
    ws,             \* per transport: the handler task of websocket_sut_endpoint
    master_key,     \* the Master key pair exists on disk
    now,            \* the clock
    out,            \* messages sent to devices by the last step
    resp,           \* the response of the last administrative request
    ip_changes,     \* history: per record, the register_device calls so far
                    \* whose ip differed from the stored ip
    key_generations,\* the key pairs ssh-keygen has generated so far
    bus,            \* the Event Bus events the last step published
    sse_initialized,\* _sse_initialized: the feed's handlers are subscribed
    sse_subscriptions,\* how often the feed's handlers are subscribed on the bus
    sse_clients,    \* _sse_clients: the queues of the observers, by stream
    sse_tasks,      \* the broadcast_sse_event tasks created and not yet run
    sse,            \* per stream: the event_generator, its queue, the time its
                    \* wait has lasted and (history) the time of its last line
    feed,           \* the lines the last step wrote to observers
    setup           \* SUT client: the run of SSHSetup.run_full_setup, its
                    \* position and the results it has built so far

vars == <<devices, ip_to_id, paired_store, stale_timeout, trust_store, connections,
          session_seq, closed, ws, master_key, now, out, resp, ip_changes,
          key_generations, bus, sse_initialized, sse_subscriptions, sse_clients,
          sse_tasks, sse, feed, setup>>

registry_vars == <<devices, ip_to_id, paired_store, stale_timeout>>
cm_vars == <<connections, session_seq, closed>>

----------------------------------------------------------------------------
(* Dictionaries: Python dicts are functions over the set of their keys *)

Put(f, k, v) == [x \in (DOMAIN f) \cup {k} |-> IF x = k THEN v ELSE f[x]]
Del(f, k) == [x \in (DOMAIN f) \ {k} |-> f[x]]
EmptyDict == [x \in {} |-> 0]

Min(a, b) == IF a <= b THEN a ELSE b

(* the last n entries of a sequence: list[-n:] *)
LastN(s, n) == IF Len(s) <= n THEN s ELSE SubSeq(s, Len(s) - n + 1, Len(s))

----------------------------------------------------------------------------
(* Device registry (package ..discovery) *)

NewDevice(unique_id, ip, ssh_public_key, sid) ==
    [ip |-> ip,
     is_online |-> TRUE,
     is_paired |-> FALSE,
     last_seen |-> now,
     session_id |-> sid,
     binding_history |-> <<>>,
     ssh_public_key |-> ssh_public_key,
     master_key_installed |-> FALSE,
     master_key_installed_at |-> NoTime,
     display_name |-> Missing,
     paired_by |-> Missing]

(* registerDevice, the record part: upsert; present fields overwrite, absent *)
(* ones are preserved; an ip that differs from the stored one is appended to *)
(* binding_history (capped); last_seen is refreshed and the device is online *)
register_device_record(devs, unique_id, ip, ssh_public_key, sid) ==
    IF unique_id \in DOMAIN devs
    THEN LET d == devs[unique_id] IN
         [d EXCEPT !.ip = ip,
                   !.is_online = TRUE,
                   !.last_seen = now,
                   !.session_id = sid,
                   !.binding_history =
                        IF d.ip # ip THEN LastN(Append(@, ip), HistoryCap) ELSE @,
                   !.ssh_public_key =
                        IF ssh_public_key # Missing THEN ssh_public_key ELSE @]
    ELSE NewDevice(unique_id, ip, ssh_public_key, sid)

(* variant: the reverse mapping of the old ip is left behind *)
register_device_index_keep_old(idx, devs, unique_id, ip) == Put(idx, ip, unique_id)

(* registerDevice, the index part: a new record is entered under its ip; *)
(* when the incoming ip differs from the stored one the index is         *)
(* repaired: the reverse mapping of the old ip is removed when it is     *)
(* this device's, and ip -> unique_id is written; a call with the stored *)
(* ip leaves the index alone                                             *)
register_device_index(idx, devs, unique_id, ip) ==
    IF unique_id \in DOMAIN devs /\ devs[unique_id].ip = ip
    THEN idx
    ELSE LET old == IF unique_id \in DOMAIN devs THEN devs[unique_id].ip ELSE ip
             repaired == IF old # ip /\ old \in DOMAIN idx /\ idx[old] = unique_id
                         THEN Del(idx, old) ELSE idx
         IN Put(repaired, ip, unique_id)

(* the record takes the session_id the connection manager assigned to the *)
(* admission of this unique_id                                            *)
register_device(devs, idx, seq, unique_id, ip, ssh_public_key) ==
    [devices |-> Put(devs, unique_id,
                     register_device_record(devs, unique_id, ip, ssh_public_key,
                                            seq[unique_id])),
     ip_to_id |-> register_device_index(idx, devs, unique_id, ip)]

(* variant: every record is marked offline *)
mark_device_offline_all(devs, unique_id) ==
    [i \in DOMAIN devs |-> [devs[i] EXCEPT !.is_online = FALSE]]

mark_device_offline(devs, unique_id) ==
    IF unique_id \in DOMAIN devs
    THEN [devs EXCEPT ![unique_id].is_online = FALSE]
    ELSE devs

PairedIds(devs) == {i \in DOMAIN devs : devs[i].is_paired}

(* the paired-device list is rewritten wholesale from the live map *)
save_paired_devices(devs) == PairedIds(devs)

(* variant: pairing a paired device unpairs it *)
pair_device_toggle(devs, unique_id, paired_by) ==
    IF unique_id \in DOMAIN devs
    THEN [devs EXCEPT ![unique_id].is_paired = ~@, ![unique_id].paired_by = paired_by]
    ELSE devs

(* pairDevice: sets is_paired and records paired_by; idempotent when the *)
(* device is already paired                                              *)
pair_device(devs, unique_id, paired_by) ==
    IF unique_id \in DOMAIN devs /\ ~devs[unique_id].is_paired
    THEN [devs EXCEPT ![unique_id].is_paired = TRUE, ![unique_id].paired_by = paired_by]
    ELSE devs

(* unpairDevice: symmetric *)
unpair_device(devs, unique_id) ==
    IF unique_id \in DOMAIN devs
    THEN [devs EXCEPT ![unique_id].is_paired = FALSE, ![unique_id].paired_by = Missing]
    ELSE devs

(* updateMasterKeyStatus: the only writer of master_key_installed; an *)
(* installation is stamped with the time                              *)
update_master_key_status(devs, unique_id, installed) ==
    IF unique_id \in DOMAIN devs
    THEN [devs EXCEPT ![unique_id].master_key_installed = installed,
                      ![unique_id].master_key_installed_at =
                            IF installed THEN now ELSE @]
    ELSE devs

(* getDeviceStats: aggregate counters, computed over the live map *)
get_device_stats(devs) ==
    LET online == Cardinality({i \in DOMAIN devs : devs[i].is_online}) IN
    [total_devices |-> Cardinality(DOMAIN devs),
     online_devices |-> online,
     offline_devices |-> Cardinality(DOMAIN devs) - online,
     paired_devices |-> Cardinality(PairedIds(devs))]

(* setDisplayName: false for an unknown id *)
set_display_name_record(devs, unique_id, name) ==
    IF unique_id \in DOMAIN devs
    THEN [devs EXCEPT ![unique_id].display_name = name]
    ELSE devs

(* isKeyRegistered, for the key of a record *)
is_key_registered(store, public_key) ==
    \E i \in DOMAIN store : store[i].public_key = public_key

(* removeStaleDevices: candidates are unpaired, offline and past the timeout *)
IsStale(d, timeout) ==
    /\ ~d.is_paired
    /\ ~d.is_online
    /\ now - d.last_seen > timeout

remove_stale_devices(devs, idx, has_override, override) ==
    LET timeout == IF has_override THEN override ELSE stale_timeout
        removed == {i \in DOMAIN devs : IsStale(devs[i], timeout)}
    IN [devices |-> [i \in (DOMAIN devs) \ removed |-> devs[i]],
        ip_to_id |-> [a \in {b \in DOMAIN idx : idx[b] \notin removed} |-> idx[a]],
        removed_count |-> Cardinality(removed),
        removed_devices |-> removed,
        timeout_used |-> timeout]

----------------------------------------------------------------------------
(* Connection manager (package ..discovery) *)

(* connect: a prior session of the id is closed first, the new one is admitted *)
(* and a fresh session_id is assigned; one WS_CONNECTED event is raised         *)
cm_connect(conns, cl, seq, unique_id, t) ==
    [connections |-> Put(conns, unique_id, t),
     closed |-> IF unique_id \in DOMAIN conns THEN cl \cup {conns[unique_id]} ELSE cl,
     session_seq |-> [seq EXCEPT ![unique_id] = @ + 1],
     events |-> <<[type |-> "WS_CONNECTED", unique_id |-> unique_id]>>]

(* variant: a disconnect raises its event also when it finds no session *)
cm_disconnect_always_event(conns, cl, unique_id) ==
    [connections |-> Del(conns, unique_id),
     closed |-> IF unique_id \in DOMAIN conns THEN cl \cup {conns[unique_id]} ELSE cl,
     events |-> <<[type |-> "WS_DISCONNECTED", unique_id |-> unique_id]>>]

(* disconnect: closes and forgets the session of the id and raises one *)
(* WS_DISCONNECTED event; a no-op when the id has no session           *)
cm_disconnect(conns, cl, unique_id) ==
    IF unique_id \in DOMAIN conns
    THEN [connections |-> Del(conns, unique_id),
          closed |-> cl \cup {conns[unique_id]},
          events |-> <<[type |-> "WS_DISCONNECTED", unique_id |-> unique_id]>>]
    ELSE [connections |-> conns, closed |-> cl, events |-> <<>>]

(* send: false when the device has no live session *)
cm_send_ok(conns, unique_id) == unique_id \in DOMAIN conns

----------------------------------------------------------------------------
(* Key store and Master key manager *)

(* addKey validates the key format: a recognized key-type prefix *)
KeyFormatOk(public_key) == public_key # MalformedKey

(* variant: addKey appends without looking for the key *)
AlreadyStored_never(store, public_key) == FALSE

(* addKey: the key appears under an existing entry, of any owner *)
AlreadyStored(store, public_key) ==
    \E i \in DOMAIN store : store[i].public_key = public_key

(* addKey(public_key, owner_id): a malformed key is rejected; a key that *)
(* is already stored gives success and no new entry; otherwise an entry  *)
(* stamped with the time is appended to the store                        *)
add_key(store, public_key, owner_id, at) ==
    IF ~KeyFormatOk(public_key)
    THEN [success |-> FALSE, message |-> "invalid", store |-> store]
    ELSE IF AlreadyStored(store, public_key)
    THEN [success |-> TRUE, message |-> "already registered", store |-> store]
    ELSE [success |-> TRUE, message |-> "added",
          store |-> Append(store, [public_key |-> public_key, unique_id |-> owner_id,
                                   registered_at |-> at])]

(* ensure_key_exists: true at once when both files exist; otherwise the *)
(* generation is attempted and `generated` tells whether ssh-keygen worked *)
ensure_key_exists(exists, generated) == exists \/ generated

(* variant: ssh-keygen runs on every call *)
Generates_always(exists, generated) == IF generated THEN 1 ELSE 0

(* ensure_key_exists: the key pairs a call generates; none when both files *)
(* exist                                                                   *)
Generates(exists, generated) == IF ~exists /\ generated THEN 1 ELSE 0

(* get_public_key and get_fingerprint, one after the other: each ensures the *)
(* key pair first; nothing is called when the manager cannot be used         *)
KeyCalls(exists, mgr_ok, g1, g2) ==
    IF mgr_ok
    THEN Generates(exists, g1) + Generates(ensure_key_exists(exists, g1), g2)
    ELSE 0

(* what the ssh subprocess of test_connection / execute_on_sut may do: exit  *)
(* with status 0 and the echo in its output, with status 0 without it, with *)
(* another status, run into the timeout, or fail to start                   *)
SshOutcomes == {"echo", "no_echo", "nonzero", "timeout", "error"}

(* variant: the exit status alone decides *)
TestSucceeds_status(outcome) == outcome \in {"echo", "no_echo"}

(* test_connection: result.returncode == 0 and "SSH_OK" in result.stdout *)
TestSucceeds(outcome) == outcome = "echo"

(* execute_on_sut: result.returncode == 0 *)
ExecSucceeds(outcome) == outcome \in {"echo", "no_echo"}

(* test_connection and execute_on_sut: ensure_key_exists, then               *)
(* getpass.getuser() when no username is given, then the ssh subprocess      *)
(* inside try/except; getuser raises when the user of the process cannot be  *)
(* determined (user_ok is false)                                             *)
ShellResult(exists, gen_ok, has_user, user_ok, outcome, succeeds) ==
    IF ~ensure_key_exists(exists, gen_ok)
    THEN [raised |-> FALSE, attempted |-> FALSE, success |-> FALSE,
          message |-> "key_unavailable"]
    ELSE IF ~has_user /\ ~user_ok
    THEN [raised |-> TRUE, attempted |-> FALSE, success |-> FALSE,
          message |-> "getuser"]
    ELSE [raised |-> FALSE, attempted |-> TRUE, success |-> succeeds,
          message |-> outcome]

----------------------------------------------------------------------------
(* Event Bus and the handlers of the notification feed *)

(* variant: every event is announced as sut_online *)
SseEventType_online(event) == "sut_online"

(* _on_ws_connected, _on_ws_disconnected: the type of the feed event *)
SseEventType(event) ==
    IF event.type = "WS_CONNECTED" THEN "sut_online" ELSE "sut_offline"

(* event_bus.publish: the handlers subscribed for the type run in turn; each *)
(* subscription of the feed's handlers creates one broadcast_sse_event task  *)
(* an event                                                                  *)
Dispatch(events) ==
    [j \in 1..(Len(events) * sse_subscriptions) |->
        [type |-> SseEventType(events[((j - 1) \div sse_subscriptions) + 1]),
         data |-> events[((j - 1) \div sse_subscriptions) + 1].unique_id]]

(* the step publishes these events *)
Publish(events) ==
    /\ bus' = events
    /\ sse_tasks' = sse_tasks \o Dispatch(events)

(* the step writes nothing to the observers and leaves the streams alone; *)
(* a step of the service does nothing to the setup run of the SUT client  *)
NoFeed ==
    /\ feed' = <<>>
    /\ UNCHANGED <<sse_initialized, sse_subscriptions, sse_clients, sse>>
    /\ UNCHANGED setup

----------------------------------------------------------------------------
(* Initial state: a freshly constructed service *)

NewStream == [pc |-> "new", queue |-> <<>>, idle |-> 0, last_line |-> NoTime]
IdleWs == [pc |-> "idle", sut_id |-> "d1", ip |-> Missing]
NoResp == [op |-> "none"]
NoSetup == [pc |-> "idle", success |-> TRUE, steps |-> <<>>, error |-> Missing,
            status |-> Missing]

Init ==
    /\ devices = EmptyDict
    /\ ip_to_id = EmptyDict
    /\ paired_store = {}
    /\ stale_timeout = DefaultStaleTimeout
    /\ trust_store = <<>>
    /\ connections = EmptyDict
    /\ session_seq = [i \in Ids |-> 0]
    /\ closed = {}
    /\ ws = [t \in Transports |-> IdleWs]
    /\ master_key = FALSE
    /\ now = 0
    /\ out = <<>>
    /\ resp = NoResp
    /\ ip_changes = [i \in Ids |-> 0]
    /\ key_generations = 0
    /\ bus = <<>>
    /\ sse_initialized = FALSE
    /\ sse_subscriptions = 0
    /\ sse_clients = {}
    /\ sse_tasks = <<>>
    /\ sse = [s \in Streams |-> NewStream]
    /\ feed = <<>>
    /\ setup = NoSetup

----------------------------------------------------------------------------
(* websocket_sut_endpoint: one handler task per transport *)

(* the initial payloads a device may send: text that is no JSON, JSON that *)
(* is no object, and objects with or without "ip" and "ssh_public_key"     *)
Payloads ==
    {[kind |-> k, ip |-> Missing, ssh_public_key |-> Missing] :
        k \in {"bad_json", "not_object"}}
    \cup {[kind |-> "object", ip |-> i, ssh_public_key |-> k] :
            i \in IPs \cup {Missing}, k \in Keys \cup {Missing}}

(* history: a register_device call for unique_id with this ip is counted when *)
(* the ip differs from the stored one; a new record starts at 0               *)
CountCall(chg, devs, unique_id, ip) ==
    IF unique_id \in DOMAIN devs
    THEN IF devs[unique_id].ip # ip THEN [chg EXCEPT ![unique_id] = @ + 1] ELSE chg
    ELSE [chg EXCEPT ![unique_id] = 0]

(* init_data.get("ip", "unknown") *)
GetIp(ip) == IF ip = Missing THEN UnknownIp ELSE ip

(* variant: the finally block without registry.mark_device_offline *)
Teardown_stays_online(conns, cl, devs, sut_id) ==
    LET cm == cm_disconnect(conns, cl, sut_id) IN
    [connections |-> cm.connections, closed |-> cm.closed, devices |-> devs,
     events |-> cm.events]

(* the finally block: ws_manager.disconnect(sut_id), then *)
(* registry.mark_device_offline(sut_id)                    *)
Teardown(conns, cl, devs, sut_id) ==
    LET cm == cm_disconnect(conns, cl, sut_id) IN
    [connections |-> cm.connections,
     closed |-> cm.closed,
     devices |-> mark_device_offline(devs, sut_id),
     events |-> cm.events]

(* the handler task of transport t has returned; its transport is gone *)
Returned(wsf, t) == [wsf EXCEPT ![t] = IdleWs]
Gone(cl, t) == cl \ {t}

(* variant: the session is stored without closing the one it supersedes *)
Admit_keeps_prior(conns, cl, seq, sut_id, t) ==
    [connections |-> Put(conns, sut_id, t),
     closed |-> cl,
     session_seq |-> [seq EXCEPT ![sut_id] = @ + 1],
     events |-> <<[type |-> "WS_CONNECTED", unique_id |-> sut_id]>>]

(* connection = await ws_manager.connect(sut_id, websocket, init_data) *)
Admit(conns, cl, seq, sut_id, t) == cm_connect(conns, cl, seq, sut_id, t)

(* variant: the register_ack carries the session_id of the prior session *)
AckSessionId_prior(device) == device.session_id - 1

(* variant: ssh_registered is reported whenever a key was offered *)
SshRegistered_offered(offered, store_ok) == offered

(* ssh_registered: False unless a key was offered and key_store.add_key *)
(* returned success; an exception of the key store is swallowed         *)
SshRegistered(offered, store_ok) == offered /\ store_ok

(* the session_id the register_ack carries *)
AckSessionId(device) == device.session_id

(* re_exchange_needed, when the Master key manager was reached *)
ReExchangeNeeded(device) == ~device.master_key_installed

(* the sessions admitted so far, and the transports that may yet ask for one *)
RECURSIVE SumSeq(_, _)
SumSeq(seq, S) ==
    IF S = {} THEN 0
    ELSE LET i == CHOOSE x \in S : TRUE IN seq[i] + SumSeq(seq, S \ {i})

Admissions ==
    SumSeq(session_seq, Ids) + Cardinality({t \in Transports : ws[t].pc = "await_init"})

(* await websocket.accept(); at most `limit` sessions are asked for in a run *)
ws_accept(t, sut_id, limit) ==
    /\ ws[t].pc = "idle"
    /\ \A u \in 1..(t - 1) : ws[u].pc # "idle"
    /\ Admissions < limit
    /\ ws' = [ws EXCEPT ![t] = [pc |-> "await_init", sut_id |-> sut_id, ip |-> Missing]]
    /\ out' = <<>>
    /\ resp' = NoResp
    /\ UNCHANGED <<registry_vars, cm_vars, trust_store, master_key, now>>
    /\ UNCHANGED ip_changes
    /\ NoFeed /\ Publish(<<>>)
    /\ UNCHANGED key_generations

(* the initial receive_json fails: the text is no JSON *)
ws_register_bad_json(t) ==
    LET sut_id == ws[t].sut_id
        fin == Teardown(connections, closed, devices, sut_id)
    IN
    /\ ws[t].pc = "await_init"
    /\ connections' = fin.connections
    /\ closed' = Gone(fin.closed, t)
    /\ devices' = fin.devices
    /\ ws' = Returned(ws, t)
    /\ out' = <<>>
    /\ resp' = NoResp
    /\ UNCHANGED <<ip_to_id, paired_store, stale_timeout, session_seq, trust_store,
                   master_key, now>>
    /\ UNCHANGED ip_changes
    /\ NoFeed /\ Publish(fin.events)
    /\ UNCHANGED key_generations

(* the initial message is JSON but no object: ws_manager.connect runs, then *)
(* init_data.get raises and the finally block runs                          *)
ws_register_not_object(t) ==
    LET sut_id == ws[t].sut_id
        cm == Admit(connections, closed, session_seq, sut_id, t)
        fin == Teardown(cm.connections, cm.closed, devices, sut_id)
    IN
    /\ ws[t].pc = "await_init"
    /\ connections' = fin.connections
    /\ closed' = Gone(fin.closed, t)
    /\ session_seq' = cm.session_seq
    /\ devices' = fin.devices
    /\ ws' = Returned(ws, t)
    /\ out' = <<>>
    /\ resp' = NoResp
    /\ UNCHANGED <<ip_to_id, paired_store, stale_timeout, trust_store, master_key, now>>
    /\ UNCHANGED ip_changes
    /\ NoFeed /\ Publish(cm.events \o fin.events)
    /\ UNCHANGED key_generations

(* the initial message is an object: connect, key registration, registry *)
(* upsert, Master key retrieval and the register_ack                       *)
(*   store_ok: the key store could be used (no exception)                  *)
(*   mgr_ok:   the Master key manager could be used (no exception)         *)
(*   g1, g2:   ssh-keygen works when get_public_key / get_fingerprint      *)
(*             have to generate the key pair                               *)
ws_register(t, p, store_ok, mgr_ok, g1, g2) ==
    LET sut_id == ws[t].sut_id
        cm == Admit(connections, closed, session_seq, sut_id, t)
        offered == p.ssh_public_key # Missing
        added == add_key(trust_store, p.ssh_public_key, sut_id, now)
        ssh_registered == SshRegistered(offered, store_ok) /\ added.success
        reg == register_device(devices, ip_to_id, cm.session_seq, sut_id,
                               GetIp(p.ip), p.ssh_public_key)
        device == reg.devices[sut_id]
        have_pub == mgr_ok /\ ensure_key_exists(master_key, g1)
        have_fp == mgr_ok /\ ensure_key_exists(have_pub, g2)
    IN
    /\ ws[t].pc = "await_init"
    /\ p.kind = "object"
    /\ connections' = cm.connections
    /\ closed' = cm.closed
    /\ session_seq' = cm.session_seq
    /\ trust_store' = IF ssh_registered THEN added.store ELSE trust_store
    /\ devices' = reg.devices
    /\ ip_to_id' = reg.ip_to_id
    /\ master_key' = (master_key \/ have_fp)
    /\ out' = <<[to |-> t, type |-> "register_ack", sut_id |-> sut_id,
                 ssh_registered |-> ssh_registered,
                 master_public_key |-> have_pub,
                 master_fingerprint |-> have_fp,
                 re_exchange |-> IF mgr_ok THEN ReExchangeNeeded(device) ELSE FALSE,
                 session_id |-> AckSessionId(device)]>>
    /\ ws' = [ws EXCEPT ![t] = [pc |-> "loop", sut_id |-> sut_id, ip |-> p.ip]]
    /\ resp' = NoResp
    /\ UNCHANGED <<paired_store, stale_timeout, now>>
    /\ ip_changes' = CountCall(ip_changes, devices, sut_id, GetIp(p.ip))
    /\ NoFeed /\ Publish(cm.events)
    /\ key_generations' =
           key_generations + KeyCalls(master_key, mgr_ok, g1, g2)

(* variant: the heartbeat re-registers with the default ip *)
HeartbeatIp_default(t) == UnknownIp

(* the heartbeat re-registers with the ip of the initial payload *)
HeartbeatIp(t) == GetIp(ws[t].ip)

(* msg_type == "heartbeat": registry.register_device(...), heartbeat_ack *)
ws_heartbeat(t) ==
    LET sut_id == ws[t].sut_id
        reg == register_device(devices, ip_to_id, session_seq, sut_id,
                               HeartbeatIp(t), Missing)
    IN
    /\ ws[t].pc = "loop"
    /\ t \notin closed
    /\ devices' = reg.devices
    /\ ip_to_id' = reg.ip_to_id
    /\ out' = <<[to |-> t, type |-> "heartbeat_ack"]>>
    /\ resp' = NoResp
    /\ UNCHANGED <<paired_store, stale_timeout, cm_vars, trust_store, ws, master_key, now>>
    /\ ip_changes' = CountCall(ip_changes, devices, sut_id, HeartbeatIp(t))
    /\ NoFeed /\ Publish(<<>>)
    /\ UNCHANGED key_generations

(* variant: any master_key_installed message marks the key installed *)
KeyAckInstalls_always(success) == TRUE

(* whether a master_key_installed message marks the key installed *)
KeyAckInstalls(success) == success

(* msg_type == "master_key_installed": message.get("success", False) *)
ws_master_key_installed(t, success) ==
    LET sut_id == ws[t].sut_id IN
    /\ ws[t].pc = "loop"
    /\ t \notin closed
    /\ devices' = IF KeyAckInstalls(success)
                  THEN update_master_key_status(devices, sut_id, TRUE)
                  ELSE devices
    /\ out' = <<[to |-> t, type |-> "master_key_installed_ack", success |-> success]>>
    /\ resp' = NoResp
    /\ UNCHANGED <<ip_to_id, paired_store, stale_timeout, cm_vars, trust_store, ws,
                   master_key, now>>
    /\ UNCHANGED ip_changes
    /\ NoFeed /\ Publish(<<>>)
    /\ UNCHANGED key_generations

(* msg_type == "status_update", or any other type: nothing is done *)
ws_other_message(t) ==
    /\ ws[t].pc = "loop"
    /\ t \notin closed
    /\ out' = <<>>
    /\ resp' = NoResp
    /\ UNCHANGED <<registry_vars, cm_vars, trust_store, ws, master_key, now>>
    /\ UNCHANGED ip_changes
    /\ NoFeed /\ Publish(<<>>)
    /\ UNCHANGED key_generations

(* the handler leaves through the finally block *)
ws_teardown(t) ==
    LET fin == Teardown(connections, closed, devices, ws[t].sut_id) IN
    /\ connections' = fin.connections
    /\ closed' = Gone(fin.closed, t)
    /\ devices' = fin.devices
    /\ ws' = Returned(ws, t)
    /\ out' = <<>>
    /\ resp' = NoResp
    /\ UNCHANGED <<ip_to_id, paired_store, stale_timeout, session_seq, trust_store,
                   master_key, now>>
    /\ UNCHANGED ip_changes
    /\ NoFeed /\ Publish(fin.events)
    /\ UNCHANGED key_generations

(* the finally block up to await ws_manager.disconnect(sut_id): the session *)
(* of the id is closed and forgotten, and the handler is suspended         *)
ws_finally_disconnect(t) ==
    LET cm == cm_disconnect(connections, closed, ws[t].sut_id) IN
    /\ ws[t].pc \in {"await_init", "loop"}
    /\ connections' = cm.connections
    /\ closed' = cm.closed
    /\ ws' = [ws EXCEPT ![t].pc = "finally"]
    /\ out' = <<>>
    /\ resp' = NoResp
    /\ UNCHANGED <<registry_vars, session_seq, trust_store, master_key, now>>
    /\ UNCHANGED ip_changes
    /\ NoFeed /\ Publish(cm.events)
    /\ UNCHANGED key_generations

(* the finally block resumes: registry.mark_device_offline(sut_id), and the *)
(* handler returns                                                          *)
ws_finally_offline(t) ==
    /\ ws[t].pc = "finally"
    /\ devices' = mark_device_offline(devices, ws[t].sut_id)
    /\ closed' = Gone(closed, t)
    /\ ws' = Returned(ws, t)
    /\ out' = <<>>
    /\ resp' = NoResp
    /\ UNCHANGED <<ip_to_id, paired_store, stale_timeout, connections, session_seq,
                   trust_store, master_key, now>>
    /\ UNCHANGED ip_changes
    /\ NoFeed /\ Publish(<<>>)
    /\ UNCHANGED key_generations

(* a message in the loop that is no JSON object: the exception reaches the *)
(* outer handler and the finally block runs                                *)
ws_bad_message(t) ==
    /\ ws[t].pc = "loop"
    /\ t \notin closed
    /\ ws_teardown(t)

(* WebSocketDisconnect: the peer closed the transport, or the server did *)
ws_disconnect(t) ==
    /\ ws[t].pc \in {"await_init", "loop"}
    /\ ws_teardown(t)

(* the peer, or the network, closes the transport of a running handler *)
transport_close(t) ==
    /\ ws[t].pc \in {"await_init", "loop"}
    /\ t \notin closed
    /\ closed' = closed \cup {t}
    /\ out' = <<>>
    /\ resp' = NoResp
    /\ UNCHANGED <<registry_vars, connections, session_seq, trust_store, ws,
                   master_key, now>>
    /\ UNCHANGED ip_changes
    /\ NoFeed /\ Publish(<<>>)
    /\ UNCHANGED key_generations

(* receive_json raises WebSocketDisconnect on a closed transport *)
ws_closed(t) ==
    /\ t \in closed
    /\ ws_disconnect(t)

----------------------------------------------------------------------------
(* Administrative endpoints *)

(* POST /suts/{unique_id}/pair *)
pair_sut(unique_id, paired_by) ==
    /\ IF unique_id \in DOMAIN devices
       THEN /\ devices' = pair_device(devices, unique_id, paired_by)
            /\ paired_store' = save_paired_devices(devices')
            /\ resp' = [op |-> "pair", unique_id |-> unique_id, status |-> 200,
                        paired_by |-> paired_by]
       ELSE /\ resp' = [op |-> "pair", unique_id |-> unique_id, status |-> 404]
            /\ UNCHANGED <<devices, paired_store>>
    /\ out' = <<>>
    /\ UNCHANGED <<ip_to_id, stale_timeout, cm_vars, trust_store, ws, master_key, now>>
    /\ UNCHANGED ip_changes
    /\ NoFeed /\ Publish(<<>>)
    /\ UNCHANGED key_generations

(* POST /suts/{unique_id}/unpair *)
unpair_sut(unique_id) ==
    /\ IF unique_id \in DOMAIN devices
       THEN /\ devices' = unpair_device(devices, unique_id)
            /\ paired_store' = save_paired_devices(devices')
            /\ resp' = [op |-> "unpair", unique_id |-> unique_id, status |-> 200]
       ELSE /\ resp' = [op |-> "unpair", unique_id |-> unique_id, status |-> 404]
            /\ UNCHANGED <<devices, paired_store>>
    /\ out' = <<>>
    /\ UNCHANGED <<ip_to_id, stale_timeout, cm_vars, trust_store, ws, master_key, now>>
    /\ UNCHANGED ip_changes
    /\ NoFeed /\ Publish(<<>>)
    /\ UNCHANGED key_generations

(* the values of the status query parameter: absent, the three filters, *)
(* and any other text                                                   *)
StatusFilters == {"none", "online", "offline", "paired", "other"}

(* list_suts: the devices the status filter keeps *)
Listed(devs, status) ==
    {i \in DOMAIN devs :
        CASE status = "online" -> devs[i].is_online
          [] status = "offline" -> ~devs[i].is_online
          [] status = "paired" -> devs[i].is_paired
          [] OTHER -> TRUE}

(* variant: online is filled with the total *)
ListOnline_total(stats) == stats.total_devices

(* list_suts: online=stats["online_devices"] *)
ListOnline(stats) == stats.online_devices

(* GET /suts?status= *)
list_suts(status) ==
    LET stats == get_device_stats(devices) IN
    /\ resp' = [op |-> "list", status |-> 200, filter |-> status,
                suts |-> Listed(devices, status),
                total |-> stats.total_devices,
                online |-> ListOnline(stats),
                offline |-> stats.offline_devices,
                paired |-> stats.paired_devices]
    /\ out' = <<>>
    /\ UNCHANGED <<registry_vars, cm_vars, trust_store, ws, master_key, now>>
    /\ UNCHANGED ip_changes
    /\ NoFeed /\ Publish(<<>>)
    /\ UNCHANGED key_generations

(* GET /suts/{unique_id} *)
get_sut(unique_id) ==
    /\ resp' = IF unique_id \in DOMAIN devices
               THEN [op |-> "get", unique_id |-> unique_id, status |-> 200,
                     device |-> devices[unique_id]]
               ELSE [op |-> "get", unique_id |-> unique_id, status |-> 404]
    /\ out' = <<>>
    /\ UNCHANGED <<registry_vars, cm_vars, trust_store, ws, master_key, now>>
    /\ UNCHANGED ip_changes
    /\ NoFeed /\ Publish(<<>>)
    /\ UNCHANGED key_generations

(* POST /suts/{unique_id}/display-name *)
set_display_name(unique_id, name) ==
    /\ IF unique_id \in DOMAIN devices
       THEN /\ devices' = set_display_name_record(devices, unique_id, name)
            /\ resp' = [op |-> "display_name", unique_id |-> unique_id, status |-> 200,
                        display_name |-> name]
       ELSE /\ resp' = [op |-> "display_name", unique_id |-> unique_id, status |-> 404]
            /\ UNCHANGED devices
    /\ out' = <<>>
    /\ UNCHANGED <<ip_to_id, paired_store, stale_timeout, cm_vars, trust_store, ws,
                   master_key, now>>
    /\ UNCHANGED ip_changes
    /\ NoFeed /\ Publish(<<>>)
    /\ UNCHANGED key_generations

(* variant: delete_sut without the guard for paired devices *)
DeleteRefused_never(device, force) == FALSE

(* delete_sut: a paired device is deleted only with force *)
DeleteRefused(device, force) == device.is_paired /\ ~force

(* variant: delete_sut leaves the index alone *)
DeleteIndex_kept(idx, device, unique_id) == idx

(* delete_sut: the index entry of device.ip is deleted when present *)
DeleteIndex(idx, device, unique_id) ==
    IF device.ip \in DOMAIN idx THEN Del(idx, device.ip) ELSE idx

(* variant: delete_sut never rewrites the persisted paired list *)
DeleteSaves_never(device) == FALSE

(* delete_sut: if device.is_paired: registry.save_paired_devices() *)
DeleteSaves(device) == device.is_paired

(* broadcast: delivery is attempted to every live session; `fails` are the *)
(* devices whose delivery fails                                            *)
cm_broadcast(conns, fails) == [i \in DOMAIN conns |-> i \notin fails]

(* the update_available messages that reach the devices of S *)
RECURSIVE UpdateMessages(_, _)
UpdateMessages(conns, S) ==
    IF S = {} THEN <<>>
    ELSE LET i == CHOOSE x \in S : TRUE IN
         <<[to |-> conns[i], type |-> "update_available"]>>
            \o UpdateMessages(conns, S \ {i})

(* variant: every connected device counts as notified *)
Notified_total(results) == Cardinality(DOMAIN results)

(* notified = sum(1 for v in results.values() if v) *)
Notified(results) == Cardinality({i \in DOMAIN results : results[i]})

(* POST /suts/broadcast-update *)
broadcast_update(fails) ==
    LET results == cm_broadcast(connections, fails) IN
    /\ out' = UpdateMessages(connections, {i \in DOMAIN results : results[i]})
    /\ resp' = [op |-> "broadcast", status |-> 200,
                notified |-> Notified(results),
                total_connected |-> Cardinality(DOMAIN results),
                results |-> results]
    /\ UNCHANGED <<registry_vars, cm_vars, trust_store, ws, master_key, now>>
    /\ UNCHANGED ip_changes
    /\ NoFeed /\ Publish(<<>>)
    /\ UNCHANGED key_generations

(* DELETE /suts/{unique_id}?force= *)
delete_sut(unique_id, force) ==
    /\ IF unique_id \notin DOMAIN devices
       THEN /\ resp' = [op |-> "delete", unique_id |-> unique_id, status |-> 404]
            /\ UNCHANGED <<devices, ip_to_id, paired_store>>
       ELSE LET device == devices[unique_id] IN
            IF DeleteRefused(device, force)
            THEN /\ resp' = [op |-> "delete", unique_id |-> unique_id, status |-> 400]
                 /\ UNCHANGED <<devices, ip_to_id, paired_store>>
            ELSE /\ ip_to_id' = DeleteIndex(ip_to_id, device, unique_id)
                 /\ devices' = Del(devices, unique_id)
                 /\ paired_store' = IF DeleteSaves(device)
                                    THEN save_paired_devices(devices')
                                    ELSE paired_store
                 /\ resp' = [op |-> "delete", unique_id |-> unique_id, status |-> 200,
                             force |-> force, was_paired |-> device.is_paired]
    /\ out' = <<>>
    /\ UNCHANGED <<stale_timeout, cm_vars, trust_store, ws, master_key, now>>
    /\ ip_changes' = [i \in Ids |-> IF i \in DOMAIN devices' THEN ip_changes[i] ELSE 0]
    /\ NoFeed /\ Publish(<<>>)
    /\ UNCHANGED key_generations

(* PUT /suts/settings/stale-timeout *)
set_stale_timeout(timeout_seconds) ==
    /\ IF timeout_seconds < 0
       THEN /\ resp' = [op |-> "set_stale_timeout", status |-> 400]
            /\ UNCHANGED stale_timeout
       ELSE /\ stale_timeout' = timeout_seconds
            /\ resp' = [op |-> "set_stale_timeout", status |-> 200,
                        old_timeout_seconds |-> stale_timeout,
                        new_timeout_seconds |-> timeout_seconds]
    /\ out' = <<>>
    /\ UNCHANGED <<devices, ip_to_id, paired_store, cm_vars, trust_store, ws,
                   master_key, now>>
    /\ UNCHANGED ip_changes
    /\ NoFeed /\ Publish(<<>>)
    /\ UNCHANGED key_generations

(* the bodies POST /suts/cleanup may carry: none, one without *)
(* timeout_seconds, one with it                               *)
CleanupRequests ==
    {[body |-> FALSE, has_timeout |-> FALSE, timeout_seconds |-> 0],
     [body |-> TRUE, has_timeout |-> FALSE, timeout_seconds |-> 0]}
    \cup {[body |-> TRUE, has_timeout |-> TRUE, timeout_seconds |-> v] :
            v \in 0..MaxTimeout}

(* timeout = request.timeout_seconds if request and request.timeout_seconds *)
(*           else None                                                      *)
CleanupHasOverride(request) ==
    request.body /\ request.has_timeout /\ request.timeout_seconds # 0

(* variant: the response counts the records that remain *)
CleanupRemovedCount_remaining(result) == Cardinality(DOMAIN result.devices)

(* the removed_count the response reports *)
CleanupRemovedCount(result) == result.removed_count

(* POST /suts/cleanup *)
cleanup_stale_devices(request) ==
    LET result == remove_stale_devices(devices, ip_to_id,
                                       CleanupHasOverride(request),
                                       request.timeout_seconds)
    IN
    /\ devices' = result.devices
    /\ ip_to_id' = result.ip_to_id
    /\ resp' = [op |-> "cleanup", status |-> 200,
                removed_count |-> CleanupRemovedCount(result),
                removed_devices |-> result.removed_devices,
                timeout_used_seconds |-> result.timeout_used]
    /\ out' = <<>>
    /\ UNCHANGED <<paired_store, stale_timeout, cm_vars, trust_store, ws, master_key, now>>
    /\ ip_changes' = [i \in Ids |-> IF i \in DOMAIN devices' THEN ip_changes[i] ELSE 0]
    /\ NoFeed /\ Publish(<<>>)
    /\ UNCHANGED key_generations

(* variant: trigger_ssh_exchange without the check of is_online *)
ExchangeRefusedOffline_never(device) == FALSE

(* trigger_ssh_exchange: the request is refused while the device is offline *)
ExchangeRefusedOffline(device) == ~device.is_online

(* variant: the request is sent on although the key is installed *)
ExchangeAlreadyInstalled_never(device, force) == FALSE

(* trigger_ssh_exchange: nothing is sent when the key is installed, unless forced *)
ExchangeAlreadyInstalled(device, force) == device.master_key_installed /\ ~force

(* "installed_at" of the answer "Master key already installed": the time of *)
(* the installation, or None                                                *)
ExchangeInstalledAt(device) == device.master_key_installed_at

(* variant: the request succeeds whatever send_to_device returned *)
ExchangeStatus_ignores_send(have_pub, success) == IF have_pub THEN 200 ELSE 500

(* trigger_ssh_exchange: 500 when the Master key is not available, or when *)
(* send_to_device returned false                                           *)
ExchangeStatus(have_pub, success) == IF have_pub /\ success THEN 200 ELSE 500

(* POST /suts/{unique_id}/ssh/exchange; force is False without a body *)
trigger_ssh_exchange(unique_id, force, mgr_ok, g1, g2) ==
    LET have_pub == mgr_ok /\ ensure_key_exists(master_key, g1)
        have_fp == mgr_ok /\ ensure_key_exists(have_pub, g2)
        Reply(status, sent) == [op |-> "exchange", unique_id |-> unique_id,
                                force |-> force, status |-> status, sent |-> sent]
    IN
    /\ IF unique_id \notin DOMAIN devices
       THEN /\ resp' = Reply(404, FALSE)
            /\ out' = <<>>
            /\ UNCHANGED <<master_key, key_generations>>
       ELSE LET device == devices[unique_id] IN
            IF ExchangeRefusedOffline(device)
            THEN /\ resp' = Reply(400, FALSE)
                 /\ out' = <<>>
                 /\ UNCHANGED <<master_key, key_generations>>
            ELSE IF ExchangeAlreadyInstalled(device, force)
            THEN /\ resp' = [op |-> "exchange", unique_id |-> unique_id,
                             force |-> force, status |-> 200, sent |-> FALSE,
                             installed_at |-> ExchangeInstalledAt(device)]
                 /\ out' = <<>>
                 /\ UNCHANGED <<master_key, key_generations>>
            ELSE /\ master_key' = (master_key \/ have_fp)
                 /\ key_generations' =
                        key_generations + KeyCalls(master_key, mgr_ok, g1, g2)
                 /\ LET success == cm_send_ok(connections, unique_id) IN
                    /\ out' = IF have_pub /\ success
                               THEN <<[to |-> connections[unique_id],
                                       type |-> "install_master_key",
                                       master_fingerprint |-> have_fp,
                                       force |-> force]>>
                               ELSE <<>>
                    /\ resp' = Reply(ExchangeStatus(have_pub, success),
                                     have_pub /\ success)
    /\ UNCHANGED <<registry_vars, cm_vars, trust_store, ws, now>>
    /\ UNCHANGED ip_changes
    /\ NoFeed /\ Publish(<<>>)

(* variant: the status never reports the time of the installation *)
StatusInstalledAt_null(device) == NoTime

(* master_to_sut.installed_at: the time of the installation, or None *)
StatusInstalledAt(device) == device.master_key_installed_at

(* variant: get_ssh_status asks the Master key manager before it looks the *)
(* device up                                                                *)
get_ssh_status_manager_first(unique_id, mgr_ok, g1, g2) ==
    /\ master_key' = (master_key \/ (mgr_ok /\ (g1 \/ g2)))
    /\ resp' = [op |-> "ssh_status", unique_id |-> unique_id,
                status |-> IF unique_id \in DOMAIN devices THEN 200 ELSE 404]
    /\ out' = <<>>
    /\ UNCHANGED <<registry_vars, cm_vars, trust_store, ws, now>>
    /\ UNCHANGED ip_changes
    /\ NoFeed /\ Publish(<<>>)
    /\ key_generations' =
           key_generations + KeyCalls(master_key, mgr_ok, g1, g2)

(* GET /suts/{unique_id}/ssh/status: get_fingerprint, then get_public_key; *)
(* an exception of the manager is reported in master_key_info              *)
get_ssh_status(unique_id, mgr_ok, g1, g2) ==
    LET have_fp == mgr_ok /\ ensure_key_exists(master_key, g1)
        have_pub == mgr_ok /\ ensure_key_exists(have_fp, g2)
    IN
    /\ IF unique_id \notin DOMAIN devices
       THEN /\ resp' = [op |-> "ssh_status", unique_id |-> unique_id, status |-> 404]
            /\ UNCHANGED <<master_key, key_generations>>
       ELSE LET device == devices[unique_id] IN
            /\ master_key' = (master_key \/ have_pub)
            /\ key_generations' =
                   key_generations + KeyCalls(master_key, mgr_ok, g1, g2)
            /\ resp' = [op |-> "ssh_status", unique_id |-> unique_id, status |-> 200,
                        is_online |-> device.is_online,
                        registered_on_master |->
                            /\ device.ssh_public_key # Missing
                            /\ is_key_registered(trust_store, device.ssh_public_key),
                        master_key_installed |-> device.master_key_installed,
                        installed_at |-> StatusInstalledAt(device),
                        master_key_available |-> have_pub,
                        session_id |-> device.session_id,
                        ip_change_count |-> Len(device.binding_history)]
    /\ out' = <<>>
    /\ UNCHANGED <<registry_vars, cm_vars, trust_store, ws, now>>
    /\ UNCHANGED ip_changes
    /\ NoFeed /\ Publish(<<>>)

----------------------------------------------------------------------------
(* Notification feed: GET /suts/events and broadcast_sse_event *)

(* the steps of the feed send nothing to devices, answer no administrative *)
(* request and leave the registry and the sessions alone                   *)
FeedOnly ==
    /\ out' = <<>>
    /\ resp' = NoResp
    /\ UNCHANGED <<registry_vars, cm_vars, trust_store, ws, master_key, now>>
    /\ UNCHANGED <<ip_changes, key_generations, setup>>

(* variant: every request for the feed subscribes the handlers again *)
Subscribes_always(initialized) == 1

(* _init_sse_handlers: the handlers are subscribed unless _sse_initialized *)
(* is set; the number of subscriptions the call adds                       *)
Subscribes(initialized) == IF initialized THEN 0 ELSE 1

(* sut_events_stream: _init_sse_handlers() subscribes the handlers of the *)
(* feed on the first request; the StreamingResponse is returned           *)
sut_events_stream(s) ==
    /\ sse[s].pc = "new"
    /\ \A u \in 1..(s - 1) : sse[u].pc # "new"
    /\ sse_subscriptions' = sse_subscriptions + Subscribes(sse_initialized)
    /\ sse_initialized' = TRUE
    /\ sse' = [sse EXCEPT ![s].pc = "start"]
    /\ feed' = <<>>
    /\ UNCHANGED sse_clients
    /\ Publish(<<>>)
    /\ FeedOnly

(* event_generator starts: its queue joins _sse_clients and the initial *)
(* connected event is written                                           *)
sse_start(s) ==
    /\ sse[s].pc = "start"
    /\ sse_clients' = sse_clients \cup {s}
    /\ sse' = [sse EXCEPT ![s] = [pc |-> "stream", queue |-> <<>>, idle |-> 0,
                                  last_line |-> now]]
    /\ feed' = <<[to |-> s, line |-> "connected"]>>
    /\ UNCHANGED <<sse_initialized, sse_subscriptions>>
    /\ Publish(<<>>)
    /\ FeedOnly

(* event_generator: queue.get() returns an event, which is written *)
sse_next(s) ==
    /\ sse[s].pc = "stream"
    /\ sse[s].queue # <<>>
    /\ feed' = <<[to |-> s, line |-> "data", event |-> Head(sse[s].queue)]>>
    /\ sse' = [sse EXCEPT ![s].queue = Tail(@), ![s].idle = 0, ![s].last_line = now]
    /\ UNCHANGED <<sse_initialized, sse_subscriptions, sse_clients>>
    /\ Publish(<<>>)
    /\ FeedOnly

(* variant: the keepalive does not wait for the timeout *)
KeepaliveDue_any(stream) == TRUE

(* asyncio.wait_for(queue.get(), timeout=30.0) raises TimeoutError *)
KeepaliveDue(stream) == stream.idle >= KeepaliveInterval

(* event_generator: the wait timed out, a keepalive comment is written *)
sse_keepalive(s) ==
    /\ sse[s].pc = "stream"
    /\ KeepaliveDue(sse[s])
    /\ feed' = <<[to |-> s, line |-> "keepalive"]>>
    /\ sse' = [sse EXCEPT ![s].idle = 0, ![s].last_line = now]
    /\ UNCHANGED <<sse_initialized, sse_subscriptions, sse_clients>>
    /\ Publish(<<>>)
    /\ FeedOnly

(* the observer of stream s closes its connection *)
observer_disconnect(s) ==
    /\ sse[s].pc = "stream"
    /\ sse' = [sse EXCEPT ![s].pc = "gone"]
    /\ feed' = <<>>
    /\ UNCHANGED <<sse_initialized, sse_subscriptions, sse_clients>>
    /\ Publish(<<>>)
    /\ FeedOnly

(* variant: the finally block leaves the queue in _sse_clients *)
Discard_kept(clients, s) == clients

(* _sse_clients.discard(queue) *)
Discard(clients, s) == clients \ {s}

(* event_generator is cancelled after the observer left: the finally block *)
(* discards its queue                                                      *)
sse_cancelled(s) ==
    /\ sse[s].pc = "gone"
    /\ sse_clients' = Discard(sse_clients, s)
    /\ sse' = [sse EXCEPT ![s].pc = "done"]
    /\ feed' = <<>>
    /\ UNCHANGED <<sse_initialized, sse_subscriptions>>
    /\ Publish(<<>>)
    /\ FeedOnly

(* variant: a bounded queue, full once it holds an event *)
QueueAccepts_bounded(queue) == Len(queue) < 1

(* queue.put_nowait(event_data) on asyncio.Queue(): the queue has no maximum *)
(* size and never raises QueueFull                                           *)
QueueAccepts(queue) == TRUE

(* broadcast_sse_event: the oldest task runs; the event is put into the queue *)
(* of every client, and the clients whose queue refused it are discarded      *)
broadcast_sse_event ==
    LET task == Head(sse_tasks)
        dead_clients == {q \in sse_clients : ~QueueAccepts(sse[q].queue)}
    IN
    /\ sse_tasks # <<>>
    /\ sse' = [s \in Streams |->
                IF s \in sse_clients \ dead_clients
                THEN [sse[s] EXCEPT !.queue = Append(@, task)]
                ELSE sse[s]]
    /\ sse_clients' = sse_clients \ dead_clients
    /\ sse_tasks' = Tail(sse_tasks)
    /\ bus' = <<>>
    /\ feed' = <<>>
    /\ UNCHANGED <<sse_initialized, sse_subscriptions>>
    /\ FeedOnly

----------------------------------------------------------------------------
(* Master key manager: direct calls, and the endpoints that diagnose *)

(* the steps of the key manager leave the registry, the sessions and the *)
(* feed alone                                                            *)
ManagerOnly ==
    /\ out' = <<>>
    /\ UNCHANGED <<registry_vars, cm_vars, trust_store, ws, now>>
    /\ UNCHANGED ip_changes
    /\ NoFeed /\ Publish(<<>>)

(* the message ensure_key_exists returns beside its verdict *)
EnsureMessage(exists, generated) ==
    IF exists THEN "Key already exists"
    ELSE IF generated THEN "Generated new key"
    ELSE "Key generation failed"

(* MasterKeyManager.ensure_key_exists() *)
ensure_key(gen_ok) ==
    /\ master_key' = ensure_key_exists(master_key, gen_ok)
    /\ key_generations' = key_generations + Generates(master_key, gen_ok)
    /\ resp' = [op |-> "ensure_key_exists",
                success |-> ensure_key_exists(master_key, gen_ok),
                message |-> EnsureMessage(master_key, gen_ok)]
    /\ ManagerOnly

(* MasterKeyManager.test_connection(sut_ip, username, timeout) *)
test_connection(gen_ok, has_user, user_ok, outcome) ==
    LET result == ShellResult(master_key, gen_ok, has_user, user_ok, outcome,
                              TestSucceeds(outcome))
    IN
    /\ master_key' = ensure_key_exists(master_key, gen_ok)
    /\ key_generations' = key_generations + Generates(master_key, gen_ok)
    /\ resp' = [op |-> "test_connection", has_user |-> has_user, outcome |-> outcome,
                raised |-> result.raised, attempted |-> result.attempted,
                success |-> result.success, message |-> result.message]
    /\ ManagerOnly

(* MasterKeyManager.execute_on_sut(sut_ip, command, username, timeout) *)
execute_on_sut(gen_ok, has_user, user_ok, outcome) ==
    LET result == ShellResult(master_key, gen_ok, has_user, user_ok, outcome,
                              ExecSucceeds(outcome))
    IN
    /\ master_key' = ensure_key_exists(master_key, gen_ok)
    /\ key_generations' = key_generations + Generates(master_key, gen_ok)
    /\ resp' = [op |-> "execute_on_sut", has_user |-> has_user, outcome |-> outcome,
                raised |-> result.raised, attempted |-> result.attempted,
                success |-> result.success, message |-> result.message]
    /\ ManagerOnly

(* GET /suts/ssh/diagnose/{ip}: ensure_key_exists, test_connection without a *)
(* username, get_fingerprint; an exception is reported in the response       *)
diagnose_ssh_connectivity(ip, mgr_ok, g1, g2, g3, user_ok, outcome) ==
    LET key_exists == mgr_ok /\ ensure_key_exists(master_key, g1)
        result == ShellResult(key_exists, g2, FALSE, user_ok, outcome,
                              TestSucceeds(outcome))
        tested == key_exists /\ ~result.raised
    IN
    /\ master_key' = (master_key \/ key_exists)
    /\ key_generations' =
           key_generations
           + (IF mgr_ok THEN Generates(master_key, g1) ELSE 0)
           + (IF key_exists THEN Generates(key_exists, g2) ELSE 0)
           + (IF tested THEN Generates(key_exists, g3) ELSE 0)
    /\ resp' = [op |-> "diagnose", status |-> 200, ip |-> ip,
                device_found |-> ip \in DOMAIN ip_to_id,
                tested |-> tested,
                connected |-> tested /\ result.success]
    /\ ManagerOnly

----------------------------------------------------------------------------
(* SUT client: SSHSetup.run_full_setup, one step a call of PowerShell *)

(* sys.platform *)
Platforms == {"win32", "linux"}

(* the steps of run_full_setup, in the order of the code *)
SetupSteps == <<"install_openssh", "start_sshd", "enable_autostart",
                "configure_firewall", "set_network_private">>

(* what each step can return: (success, message), the text of stderr left out *)
InstallOutcomes ==
    {[success |-> TRUE, message |-> "OpenSSH Server already installed"],
     [success |-> TRUE, message |-> "OpenSSH Server installed"],
     [success |-> FALSE, message |-> "Installation failed"]}

StartOutcomes ==
    {[success |-> TRUE, message |-> "sshd service already running"],
     [success |-> TRUE, message |-> "sshd service started"],
     [success |-> FALSE, message |-> "Failed to start sshd"]}

AutostartOutcomes ==
    {[success |-> TRUE, message |-> "sshd already set to automatic"],
     [success |-> TRUE, message |-> "sshd set to automatic startup"],
     [success |-> FALSE, message |-> "Failed to enable autostart"]}

FirewallOutcomes ==
    {[success |-> TRUE, message |-> "Firewall rule updated for all profiles"],
     [success |-> FALSE, message |-> "Failed to update firewall rule"],
     [success |-> TRUE, message |-> "Firewall rule created"],
     [success |-> FALSE, message |-> "Failed to create firewall rule"]}

(* set_network_profile_private returns a bool; run_full_setup adds the message *)
NetworkOutcomes ==
    {[success |-> TRUE, message |-> "Network set to Private"],
     [success |-> FALSE,
      message |-> "Could not set network to Private (may need admin)"]}

(* a step of the setup run leaves the service alone *)
SetupOnly ==
    /\ out' = <<>>
    /\ resp' = NoResp
    /\ feed' = <<>>
    /\ Publish(<<>>)
    /\ UNCHANGED <<registry_vars, cm_vars, trust_store, ws, master_key, now>>
    /\ UNCHANGED <<ip_changes, key_generations>>
    /\ UNCHANGED <<sse_initialized, sse_subscriptions, sse_clients, sse>>

(* variant: the failure of any step ends the run *)
StopsRun_any(step, success) == ~success

(* run_full_setup returns after a failed step only for the first two steps *)
StopsRun(step, success) ==
    ~success /\ step \in {"install_openssh", "start_sshd"}

(* the step at position k ran with this outcome: it is listed, and either *)
(* ends the run with its message as the error or lets the next one follow *)
SetupStep(k, outcome) ==
    LET step == SetupSteps[k]
        listed == Append(setup.steps, [step |-> step, success |-> outcome.success,
                                       message |-> outcome.message])
    IN
    /\ setup.pc = step
    /\ setup' = IF StopsRun(step, outcome.success)
                THEN [setup EXCEPT !.pc = "returned", !.steps = listed,
                                   !.success = FALSE, !.error = outcome.message]
                ELSE [setup EXCEPT !.pc = IF k < Len(SetupSteps)
                                          THEN SetupSteps[k + 1]
                                          ELSE "get_status",
                                   !.steps = listed]
    /\ SetupOnly

(* run_full_setup is called: off Windows it returns at once *)
run_full_setup(platform) ==
    /\ setup.pc = "idle"
    /\ setup' = IF platform # "win32"
                THEN [setup EXCEPT !.pc = "returned", !.success = FALSE,
                                   !.error = "SSH setup only supported on Windows"]
                ELSE [setup EXCEPT !.pc = SetupSteps[1]]
    /\ SetupOnly

(* Step 1: install_openssh_server *)
install_openssh_server(outcome) == SetupStep(1, outcome)

(* Step 2: start_sshd_service *)
start_sshd_service(outcome) == SetupStep(2, outcome)

(* Step 3: enable_sshd_autostart *)
enable_sshd_autostart(outcome) == SetupStep(3, outcome)

(* Step 4: configure_firewall_rule *)
configure_firewall_rule(outcome) == SetupStep(4, outcome)

(* Step 5: set_network_profile_private *)
set_network_profile_private(outcome) == SetupStep(5, outcome)

(* get_status: reads authorized_keys and asks getpass.getuser(), either of *)
(* which may raise; otherwise the results are returned                     *)
get_status(raises) ==
    /\ setup.pc = "get_status"
    /\ setup' = IF raises
                THEN [setup EXCEPT !.pc = "raised"]
                ELSE [setup EXCEPT !.pc = "returned", !.status = "status"]
    /\ SetupOnly

----------------------------------------------------------------------------
(* time passes; the timer of every event_generator that waits on an empty *)
(* queue runs                                                            *)
Tick ==
    /\ now < MaxTime
    /\ now' = now + 1
    /\ out' = <<>>
    /\ resp' = NoResp
    /\ UNCHANGED <<registry_vars, cm_vars, trust_store, ws, master_key>>
    /\ UNCHANGED ip_changes
    /\ sse' = [s \in Streams |->
                IF sse[s].pc = "stream" /\ sse[s].queue = <<>>
                THEN [sse[s] EXCEPT !.idle = Min(@ + 1, KeepaliveInterval)]
                ELSE sse[s]]
    /\ feed' = <<>>
    /\ UNCHANGED <<sse_initialized, sse_subscriptions, sse_clients>>
    /\ Publish(<<>>)
    /\ UNCHANGED <<key_generations, setup>>

----------------------------------------------------------------------------

(* the reply of the last request, the messages it sent and the events it *)
(* published leave the process                                           *)
Quiet == out = <<>> /\ resp = NoResp /\ bus = <<>>

deliver ==
    /\ ~Quiet
    /\ out' = <<>>
    /\ resp' = NoResp
    /\ UNCHANGED <<registry_vars, cm_vars, trust_store, ws, master_key, now>>
    /\ UNCHANGED ip_changes
    /\ NoFeed /\ Publish(<<>>)
    /\ UNCHANGED key_generations

(* payloads without a device key, and those that also fix the ip *)
NoKeyPayloads == {q \in Payloads : q.ssh_public_key = Missing}
OneIpPayloads == {q \in NoKeyPayloads : q.ip = "ip1"}

(* Connection lifecycle, pairing and deletion: every kind of initial payload, *)
(* with the Master key manager working                                        *)
Handle ==
    \/ \E t \in Transports, i \in Ids : ws_accept(t, i, MaxSessions)
    \/ \E t \in Transports : ws_register_bad_json(t)
    \/ \E t \in Transports : ws_register_not_object(t)
    \/ \E t \in Transports, p \in NoKeyPayloads :
            ws_register(t, p, TRUE, TRUE, TRUE, TRUE)
    \/ \E t \in Transports : ws_heartbeat(t)
    \/ \E t \in Transports : ws_other_message(t)
    \/ \E t \in Transports : ws_bad_message(t)
    \/ \E t \in Transports : ws_disconnect(t)
    \/ \E i \in Ids : pair_sut(i, DefaultUser)
    \/ \E i \in Ids : unpair_sut(i)
    \/ \E i \in Ids, force \in BOOLEAN : delete_sut(i, force)

Next ==
    \/ Quiet /\ Handle
    \/ deliver

Spec == Init /\ [][Next]_vars

(* Staleness: the clock, the stale timeout and the sweep, with the connection *)
(* lifecycle, pairing and deletion                                            *)
HandleSweep ==
    \/ \E t \in Transports, i \in Ids : ws_accept(t, i, MaxSweepSessions)
    \/ \E t \in Transports : ws_register_bad_json(t)
    \/ \E t \in Transports, p \in OneIpPayloads :
            ws_register(t, p, TRUE, TRUE, TRUE, TRUE)
    \/ \E t \in Transports : ws_heartbeat(t)
    \/ \E t \in Transports : ws_disconnect(t)
    \/ \E i \in Ids : pair_sut(i, DefaultUser)
    \/ \E i \in Ids : unpair_sut(i)
    \/ \E i \in Ids, force \in BOOLEAN : delete_sut(i, force)
    \/ \E v \in (0 - 1)..MaxTimeout : set_stale_timeout(v)
    \/ \E r \in CleanupRequests : cleanup_stale_devices(r)
    \/ Tick

NextSweep ==
    \/ Quiet /\ HandleSweep
    \/ deliver

SpecSweep == Init /\ [][NextSweep]_vars

(* Trust exchange: the Master key manager may fail, devices acknowledge the *)
(* installation of the Master key, operators request the exchange            *)
HandleTrust ==
    \/ \E t \in Transports, i \in Ids : ws_accept(t, i, MaxTrustSessions)
    \/ \E t \in Transports : ws_register_bad_json(t)
    \/ \E t \in Transports, p \in OneIpPayloads, mgr_ok, g \in BOOLEAN :
            ws_register(t, p, TRUE, mgr_ok, g, g)
    \/ \E t \in Transports : ws_heartbeat(t)
    \/ \E t \in Transports, success \in BOOLEAN : ws_master_key_installed(t, success)
    \/ \E t \in Transports : ws_disconnect(t)
    \/ \E i \in Ids : pair_sut(i, DefaultUser)
    \/ \E i \in Ids, force, mgr_ok, g \in BOOLEAN :
            trigger_ssh_exchange(i, force, mgr_ok, g, g)

NextTrust ==
    \/ Quiet /\ HandleTrust
    \/ deliver

SpecTrust == Init /\ [][NextTrust]_vars

(* Key registration: one device offers an SSH key or none, again and again; *)
(* the key store and the Master key manager may fail, each call of          *)
(* ssh-keygen on its own                                                    *)
KeyPayloads == {q \in Payloads : q.kind = "object" /\ q.ip = "ip1"}

HandleKeys ==
    \/ \E t \in Transports : ws_accept(t, "d1", MaxKeySessions)
    \/ \E t \in Transports, p \in KeyPayloads, store_ok, mgr_ok, g1, g2 \in BOOLEAN :
            ws_register(t, p, store_ok, mgr_ok, g1, g2)
    \/ \E t \in Transports : ws_heartbeat(t)
    \/ \E t \in Transports, success \in BOOLEAN : ws_master_key_installed(t, success)
    \/ \E t \in Transports : ws_disconnect(t)
    \/ \E i \in Ids, mgr_ok, g \in BOOLEAN : get_ssh_status(i, mgr_ok, g, g)
    \/ \E i \in Ids, force \in BOOLEAN : delete_sut(i, force)

NextKeys ==
    \/ Quiet /\ HandleKeys
    \/ deliver

SpecKeys == Init /\ [][NextKeys]_vars

(* Transports that close under a running handler: the handler task is *)
(* scheduled again and observes the close                             *)
HandleLive ==
    \/ \E t \in Transports, i \in Ids : ws_accept(t, i, MaxLiveSessions)
    \/ \E t \in Transports, p \in OneIpPayloads :
            ws_register(t, p, TRUE, TRUE, TRUE, TRUE)
    \/ \E t \in Transports : ws_heartbeat(t)
    \/ \E t \in Transports : ws_master_key_installed(t, TRUE)
    \/ \E t \in Transports : ws_bad_message(t)
    \/ \E t \in Transports : transport_close(t)
    \/ \E t \in Transports : ws_closed(t)
    \/ \E i \in Ids : pair_sut(i, DefaultUser)

NextLive ==
    \/ Quiet /\ HandleLive
    \/ deliver

SpecLive ==
    /\ Init
    /\ [][NextLive]_vars
    /\ WF_vars(deliver)
    /\ \A t \in Transports : SF_vars(Quiet /\ ws_closed(t))

(* The administrative requests, for known and unknown ids, beside devices *)
(* that come and go                                                       *)
HandleAdmin ==
    \/ \E t \in Transports, i \in Ids : ws_accept(t, i, MaxAdminSessions)
    \/ \E t \in Transports, p \in OneIpPayloads :
            ws_register(t, p, TRUE, TRUE, TRUE, TRUE)
    \/ \E t \in Transports : ws_disconnect(t)
    \/ \E f \in StatusFilters : list_suts(f)
    \/ \E i \in Ids : get_sut(i)
    \/ \E i \in Ids : pair_sut(i, DefaultUser)
    \/ \E i \in Ids : unpair_sut(i)
    \/ \E i \in Ids, n \in Names : set_display_name(i, n)
    \/ \E i \in Ids, force \in BOOLEAN : delete_sut(i, force)
    \/ \E i \in Ids, mgr_ok, g \in BOOLEAN : get_ssh_status(i, mgr_ok, g, g)
    \/ \E i \in Ids, force, mgr_ok, g \in BOOLEAN :
            trigger_ssh_exchange(i, force, mgr_ok, g, g)

NextAdmin ==
    \/ Quiet /\ HandleAdmin
    \/ deliver

SpecAdmin == Init /\ [][NextAdmin]_vars

(* Pairing by several operators, beside devices that come and go *)
HandlePair ==
    \/ \E t \in Transports, i \in Ids : ws_accept(t, i, MaxPairSessions)
    \/ \E t \in Transports, p \in OneIpPayloads :
            ws_register(t, p, TRUE, TRUE, TRUE, TRUE)
    \/ \E t \in Transports : ws_heartbeat(t)
    \/ \E t \in Transports : ws_disconnect(t)
    \/ \E i \in Ids, u \in Users : pair_sut(i, u)
    \/ \E i \in Ids : unpair_sut(i)

NextPair ==
    \/ Quiet /\ HandlePair
    \/ deliver

SpecPair == Init /\ [][NextPair]_vars

(* Messages sent on request: the key exchange and the update broadcast, *)
(* beside handlers that may be suspended in their finally block        *)
HandleSend ==
    \/ \E t \in Transports, i \in Ids : ws_accept(t, i, MaxSendSessions)
    \/ \E t \in Transports, p \in OneIpPayloads :
            ws_register(t, p, TRUE, TRUE, TRUE, TRUE)
    \/ \E t \in Transports : ws_master_key_installed(t, TRUE)
    \/ \E t \in Transports : ws_finally_disconnect(t)
    \/ \E t \in Transports : ws_finally_offline(t)
    \/ \E i \in Ids, force, mgr_ok \in BOOLEAN :
            trigger_ssh_exchange(i, force, mgr_ok, TRUE, TRUE)
    \/ \E fails \in SUBSET Ids : broadcast_update(fails)

NextSend ==
    \/ Quiet /\ HandleSend
    \/ deliver

SpecSend == Init /\ [][NextSend]_vars

(* Two devices side by side: every message of the loop, malformed messages, *)
(* closed transports, and an operator who pairs and deletes                 *)
IsolatePayloads == {q \in NoKeyPayloads : q.kind = "object" /\ q.ip \in IPs}

HandleIsolate ==
    \/ \E t \in Transports, i \in Ids : ws_accept(t, i, MaxIsolateSessions)
    \/ \E t \in Transports : ws_register_bad_json(t)
    \/ \E t \in Transports : ws_register_not_object(t)
    \/ \E t \in Transports, p \in IsolatePayloads :
            ws_register(t, p, TRUE, TRUE, TRUE, TRUE)
    \/ \E t \in Transports : ws_heartbeat(t)
    \/ \E t \in Transports, success \in BOOLEAN : ws_master_key_installed(t, success)
    \/ \E t \in Transports : ws_other_message(t)
    \/ \E t \in Transports : ws_bad_message(t)
    \/ \E t \in Transports : ws_disconnect(t)
    \/ \E i \in Ids : pair_sut(i, DefaultUser)
    \/ \E i \in Ids, force \in BOOLEAN : delete_sut(i, force)

NextIsolate ==
    \/ Quiet /\ HandleIsolate
    \/ deliver

SpecIsolate == Init /\ [][NextIsolate]_vars

(* Devices that offer keys to the key store, well-formed or not, the same *)
(* key again and the key of another device, while time passes            *)
StoreKeys == {"k1", MalformedKey}
StorePayloads ==
    {[kind |-> "object", ip |-> "ip1", ssh_public_key |-> k] : k \in StoreKeys}

HandleStore ==
    \/ \E t \in Transports, i \in Ids : ws_accept(t, i, MaxStoreSessions)
    \/ \E t \in Transports, p \in StorePayloads :
            ws_register(t, p, TRUE, TRUE, TRUE, TRUE)
    \/ \E t \in Transports : ws_disconnect(t)
    \/ \E i \in Ids : get_ssh_status(i, TRUE, TRUE, TRUE)
    \/ Tick

NextStore ==
    \/ Quiet /\ HandleStore
    \/ deliver

SpecStore == Init /\ [][NextStore]_vars

(* The SUT client runs its SSH setup once, every step with any outcome *)
HandleSetup ==
    \/ \E platform \in Platforms : run_full_setup(platform)
    \/ \E outcome \in InstallOutcomes : install_openssh_server(outcome)
    \/ \E outcome \in StartOutcomes : start_sshd_service(outcome)
    \/ \E outcome \in AutostartOutcomes : enable_sshd_autostart(outcome)
    \/ \E outcome \in FirewallOutcomes : configure_firewall_rule(outcome)
    \/ \E outcome \in NetworkOutcomes : set_network_profile_private(outcome)
    \/ \E raises \in BOOLEAN : get_status(raises)

NextSetup == HandleSetup

SpecSetup == Init /\ [][NextSetup]_vars /\ WF_vars(NextSetup)

(* The Master key manager: direct calls of its operations and the requests *)
(* that reach it, with ssh-keygen, the user lookup and the ssh subprocess  *)
(* working or failing                                                      *)
HandleManager ==
    \/ \E t \in Transports : ws_accept(t, "d1", MaxManagerSessions)
    \/ \E t \in Transports, p \in OneIpPayloads, mgr_ok, g1, g2 \in BOOLEAN :
            ws_register(t, p, TRUE, mgr_ok, g1, g2)
    \/ \E t \in Transports : ws_disconnect(t)
    \/ \E gen_ok \in BOOLEAN : ensure_key(gen_ok)
    \/ \E gen_ok, has_user, user_ok \in BOOLEAN, outcome \in SshOutcomes :
            test_connection(gen_ok, has_user, user_ok, outcome)
    \/ \E gen_ok, has_user, user_ok \in BOOLEAN, outcome \in SshOutcomes :
            execute_on_sut(gen_ok, has_user, user_ok, outcome)
    \/ \E ip \in IPs, mgr_ok, g, user_ok \in BOOLEAN, outcome \in SshOutcomes :
            diagnose_ssh_connectivity(ip, mgr_ok, g, g, g, user_ok, outcome)
    \/ \E i \in Ids, mgr_ok, g1, g2 \in BOOLEAN : get_ssh_status(i, mgr_ok, g1, g2)
    \/ \E i \in Ids, force, mgr_ok, g \in BOOLEAN :
            trigger_ssh_exchange(i, force, mgr_ok, g, g)

NextManager ==
    \/ Quiet /\ HandleManager
    \/ deliver

SpecManager == Init /\ [][NextManager]_vars

(* Observers of the notification feed, beside devices that come and go; *)
(* created tasks run, waiting generators are resumed                    *)
HandleFeed ==
    \/ \E t \in Transports : ws_accept(t, "d1", MaxFeedSessions)
    \/ \E t \in Transports, p \in OneIpPayloads :
            ws_register(t, p, TRUE, TRUE, TRUE, TRUE)
    \/ \E t \in Transports : ws_disconnect(t)
    \/ \E s \in Streams : sut_events_stream(s)
    \/ \E s \in Streams : sse_start(s)
    \/ \E s \in Streams : sse_next(s)
    \/ \E s \in Streams : observer_disconnect(s)
    \/ \E s \in Streams : sse_cancelled(s)
    \/ broadcast_sse_event

NextFeed == HandleFeed

SpecFeed ==
    /\ Init
    /\ [][NextFeed]_vars
    /\ WF_vars(broadcast_sse_event)
    /\ \A s \in Streams : WF_vars(sse_next(s)) /\ WF_vars(sse_cancelled(s))

(* Idle and busy observers: the clock runs, events and keepalives are *)
(* written to the streams                                            *)
HandleKeepalive ==
    \/ \E t \in Transports : ws_accept(t, "d1", MaxFeedSessions)
    \/ \E t \in Transports, p \in OneIpPayloads :
            ws_register(t, p, TRUE, TRUE, TRUE, TRUE)
    \/ \E s \in Streams : sut_events_stream(s)
    \/ \E s \in Streams : sse_start(s)
    \/ \E s \in Streams : sse_next(s)
    \/ \E s \in Streams : sse_keepalive(s)
    \/ broadcast_sse_event
    \/ Tick

NextKeepalive == HandleKeepalive

SpecKeepalive ==
    /\ Init
    /\ [][NextKeepalive]_vars
    /\ \A s \in Streams : WF_vars(sse_next(s))

(* One device that registers again and again under varying ips *)
HandleRebind ==
    \/ \E t \in Transports : ws_accept(t, "d1", MaxRebinds)
    \/ \E t \in Transports, p \in NoKeyPayloads :
            ws_register(t, p, TRUE, TRUE, TRUE, TRUE)
    \/ \E t \in Transports : ws_heartbeat(t)
    \/ \E t \in Transports : ws_disconnect(t)

NextRebind ==
    \/ Quiet /\ HandleRebind
    \/ deliver

SpecRebind == Init /\ [][NextRebind]_vars

----------------------------------------------------------------------------
(* Properties *)

(* the transports of a unique_id whose session was admitted and which the *)
(* server has not closed                                                  *)
LiveTransports(i) ==
    {t \in Transports : ws[t].pc = "loop" /\ ws[t].sut_id = i /\ t \notin closed}

(* C1: at most one live session per unique_id: the sessions admitted for an *)
(* id and not closed are at most one, and it is the one the connection      *)
(* manager holds; a connect for an id with a live session closes that one   *)
C1_OneLiveSession ==
    \A i \in Ids :
        /\ Cardinality(LiveTransports(i)) <= 1
        /\ \A t \in LiveTransports(i) : i \in DOMAIN connections /\ connections[i] = t

(* a session was superseded: its transport is closed, its handler has not *)
(* yet left, and the new session of the same id is live                    *)
C1_Witness ==
    \E t \in Transports :
        /\ ws[t].pc = "loop"
        /\ t \in closed
        /\ LiveTransports(ws[t].sut_id) # {}

Disappears(i) == i \in DOMAIN devices /\ i \notin DOMAIN devices'

(* C3: a paired record is never removed by the stale sweep; it disappears *)
(* only through a delete with force                                       *)
C3_PairedOnlyForcedDelete ==
    [][\A i \in Ids :
         (Disappears(i) /\ devices[i].is_paired) =>
            /\ resp'.op = "delete"
            /\ resp'.unique_id = i
            /\ resp'.status = 200
            /\ resp'.force]_vars

(* a sweep has run and left a paired device that is offline past the timeout *)
C3_Witness ==
    /\ resp.op = "cleanup"
    /\ \E i \in DOMAIN devices :
         /\ devices[i].is_paired
         /\ ~devices[i].is_online
         /\ now - devices[i].last_seen > resp.timeout_used_seconds

(* C4: the sweep removes exactly the records that are unpaired, offline and *)
(* seen longer ago than the timeout in use, and removed_count is their number *)
C4_SweepRemovesExactlyStale ==
    [][resp'.op = "cleanup" =>
         LET used == resp'.timeout_used_seconds
             removed == (DOMAIN devices) \ (DOMAIN devices')
         IN /\ \A i \in DOMAIN devices :
                  i \in removed <=>
                     /\ ~devices[i].is_paired
                     /\ ~devices[i].is_online
                     /\ now - devices[i].last_seen > used
            /\ \A i \in DOMAIN devices : devices[i].is_online => i \in DOMAIN devices'
            /\ DOMAIN devices' \subseteq DOMAIN devices
            /\ resp'.removed_count = Cardinality(removed)
            /\ resp'.removed_devices = removed]_vars

(* a sweep removed one device and kept another unpaired, offline one *)
C4_Witness ==
    /\ resp.op = "cleanup"
    /\ resp.removed_count = 1
    /\ \E i \in DOMAIN devices : ~devices[i].is_paired /\ ~devices[i].is_online

(* every index entry refers to an existing record with that ip *)
IndexConsistent(devs, idx) ==
    \A a \in DOMAIN idx : idx[a] \in DOMAIN devs /\ devs[idx[a]].ip = a

(* C5: the ip index is consistent with the device map, and deleting or    *)
(* sweeping a device leaves the index entries of the other devices as     *)
(* they are                                                               *)
C5_IndexConsistent ==
    [][/\ IndexConsistent(devices', ip_to_id')
       /\ resp'.op \in {"delete", "cleanup"} =>
            \A a \in DOMAIN ip_to_id :
                ip_to_id[a] \in DOMAIN devices' =>
                    a \in DOMAIN ip_to_id' /\ ip_to_id'[a] = ip_to_id[a]]_vars

(* the index entries that point to a unique_id *)
EntriesOf(i) == {a \in DOMAIN ip_to_id : ip_to_id[a] = i}

(* C6: after registerDevice calls for one unique_id under varying ips the *)
(* index holds exactly one entry for it, that of the last ip, and         *)
(* binding_history is as long as the number of calls whose ip differed    *)
(* from the stored one, capped at N                                       *)
C6_OneEntryAndHistory ==
    \A i \in DOMAIN devices :
        /\ EntriesOf(i) = {devices[i].ip}
        /\ Len(devices[i].binding_history) = Min(ip_changes[i], HistoryCap)

(* the ip of a device changed more often than binding_history holds entries *)
C6_Witness ==
    \E i \in DOMAIN devices :
        /\ ip_changes[i] > HistoryCap
        /\ Len(devices[i].binding_history) = HistoryCap

(* the step sends a register_ack for unique_id i *)
AcksRegistration(i) ==
    /\ Len(out') = 1
    /\ out'[1].type = "register_ack"
    /\ out'[1].sut_id = i

(* C7: session_id never decreases; each admission of a new session gives the *)
(* record a strictly greater session_id, which the register_ack carries, and *)
(* every other step leaves it unchanged                                      *)
C7_SessionIdIncreases ==
    [][\A i \in DOMAIN devices' :
         IF AcksRegistration(i)
         THEN /\ out'[1].session_id = devices'[i].session_id
              /\ i \in DOMAIN devices => devices'[i].session_id > devices[i].session_id
         ELSE i \in DOMAIN devices /\ devices'[i].session_id = devices[i].session_id]_vars

(* a device registered again and its register_ack carries the new session_id *)
C7_Witness ==
    /\ Len(out) = 1
    /\ out[1].type = "register_ack"
    /\ out[1].session_id > 1
    /\ devices[out[1].sut_id].session_id = out[1].session_id

(* the step sends a master_key_installed_ack to the session of unique_id i *)
AcksKeyInstall(i, success) ==
    /\ Len(out') = 1
    /\ out'[1].type = "master_key_installed_ack"
    /\ ws[out'[1].to].sut_id = i
    /\ out'[1].success = success

ForcedExchange(i) ==
    /\ resp'.op = "exchange"
    /\ resp'.unique_id = i
    /\ resp'.force

(* the step sends exactly one install_master_key, to the session of i *)
SendsInstallTo(i) ==
    /\ Len(out') = 1
    /\ out'[1].type = "install_master_key"
    /\ i \in DOMAIN connections
    /\ out'[1].to = connections[i]

(* C9 as claimed: a forced exchange request for an offline device fails and *)
(* sends nothing; for an online device it sends exactly one                 *)
(* install_master_key and leaves master_key_installed unchanged             *)
C9_ForcedExchangeAsClaimed ==
    [][\A i \in DOMAIN devices :
         ForcedExchange(i) =>
            /\ ~devices[i].is_online => resp'.status # 200 /\ out' = <<>>
            /\ devices[i].is_online => resp'.status = 200 /\ SendsInstallTo(i)
            /\ devices' = devices]_vars

(* C9 amended: for an online device the request either succeeds and sends  *)
(* exactly one install_master_key, or, when the Master key cannot be       *)
(* obtained, fails with a server error and sends nothing                   *)
C9_ForcedExchange ==
    [][\A i \in DOMAIN devices :
         ForcedExchange(i) =>
            /\ ~devices[i].is_online => resp'.status = 400 /\ out' = <<>>
            /\ devices[i].is_online =>
                 \/ resp'.status = 200 /\ SendsInstallTo(i)
                 \/ resp'.status = 500 /\ out' = <<>>
            /\ devices' = devices]_vars

(* a forced request for an online device whose key is installed was sent on *)
C9_Witness ==
    /\ resp.op = "exchange"
    /\ resp.force
    /\ resp.status = 200
    /\ Len(out) = 1
    /\ out[1].type = "install_master_key"
    /\ resp.unique_id \in DOMAIN devices
    /\ devices[resp.unique_id].master_key_installed

(* the step handles an initial payload of transport t that is no object, or *)
(* an object without "ip"                                                   *)
HandlesIncompletePayload(t) ==
    /\ ws[t].pc = "await_init"
    /\ \/ ws'[t].pc = "loop" /\ ws'[t].ip = Missing
       \/ ws'[t].pc = "idle" /\ session_seq' # session_seq

(* C10: a malformed or incomplete registration payload mutates nothing: no *)
(* record is created or updated, no session is admitted, nothing is sent    *)
C10_IncompletePayloadRefused ==
    [][\A t \in Transports :
         HandlesIncompletePayload(t) =>
            /\ devices' = devices
            /\ ip_to_id' = ip_to_id
            /\ connections' = connections
            /\ out' = <<>>]_vars

(* the key store failed for the key the payload offered *)
StoreFailed(p, store_ok) == p.ssh_public_key # Missing /\ ~store_ok

(* the Master key manager raised, or no key pair exists and none could be *)
(* generated during this registration                                     *)
ManagerFailed(mgr_ok, g1, g2) == ~mgr_ok \/ (~master_key /\ ~g1 /\ ~g2)

C12_HeartbeatOnlyLastSeen ==
    [][\A t \in Transports :
         (ws_heartbeat(t) /\ ws[t].sut_id \in DOMAIN devices) =>
            /\ devices' = [devices EXCEPT ![ws[t].sut_id].last_seen = now]
            /\ ip_to_id' = ip_to_id
            /\ out' = <<[to |-> t, type |-> "heartbeat_ack"]>>]_vars

(* a heartbeat was acknowledged after time has passed: last_seen of the *)
(* record is the present time                                           *)
C12_Witness ==
    /\ Len(out) = 1
    /\ out[1].type = "heartbeat_ack"
    /\ now > 0
    /\ ws[out[1].to].sut_id \in DOMAIN devices
    /\ devices[ws[out[1].to].sut_id].last_seen = now
    /\ devices[ws[out[1].to].sut_id].is_online

(* the transport of a session admitted for unique_id i is closed and its *)
(* handler has not yet left                                              *)
ClosedUnderHandler(t, i) ==
    ws[t].pc = "loop" /\ ws[t].sut_id = i /\ t \in closed

(* the connection manager holds no session for i and its record, if any, *)
(* is offline                                                            *)
SessionGone(i) ==
    /\ i \notin DOMAIN connections
    /\ i \in DOMAIN devices => ~devices[i].is_online

(* the handler of a session of transport t leaves in this step *)
HandlerLeaves(t) == ws[t].pc = "loop" /\ ws'[t].pc = "idle"

(* C13: whenever the transport of a registered device closes, its session *)
(* is eventually removed from the connection manager and its record is    *)
(* marked offline; the step that does so (after a disconnect, or after an *)
(* error while handling a message) retains the record and changes nothing *)
(* of it but is_online, and leaves the persisted paired set alone         *)
C13_CloseEventuallyOffline ==
    /\ \A t \in Transports, i \in Ids : ClosedUnderHandler(t, i) ~> SessionGone(i)
    /\ [][\A t \in Transports :
            HandlerLeaves(t) =>
               LET i == ws[t].sut_id IN
               /\ i \notin DOMAIN connections'
               /\ DOMAIN devices' = DOMAIN devices
               /\ \A j \in DOMAIN devices :
                    devices'[j] = IF j = i THEN [devices[j] EXCEPT !.is_online = FALSE]
                                  ELSE devices[j]
               /\ paired_store' = paired_store]_vars

(* a paired device with the Master key installed is offline after its *)
(* transport closed: the record is retained with both flags           *)
C13_Witness ==
    \E i \in DOMAIN devices :
        /\ ~devices[i].is_online
        /\ devices[i].is_paired
        /\ devices[i].master_key_installed
        /\ i \notin DOMAIN connections
        /\ \A t \in Transports : ws[t].pc = "idle"

(* C14: a delete of a paired device without force is refused and changes *)
(* nothing (records, ip index, persisted paired set); a delete of an      *)
(* unpaired device, or of a paired one with force, removes the record    *)
(* from the device map and its ip from the index                         *)
C14_DeleteGuardedAndComplete ==
    [][\A i \in DOMAIN devices, force \in BOOLEAN :
         delete_sut(i, force) =>
            IF devices[i].is_paired /\ ~force
            THEN /\ resp'.status = 400
                 /\ devices' = devices
                 /\ ip_to_id' = ip_to_id
                 /\ paired_store' = paired_store
            ELSE /\ resp'.status = 200
                 /\ DOMAIN devices' = (DOMAIN devices) \ {i}
                 /\ \A j \in DOMAIN devices' : devices'[j] = devices[j]
                 /\ devices[i].ip \notin DOMAIN ip_to_id'
                 /\ i \notin paired_store']_vars

(* a paired device was deleted with force *)
C14_Witness ==
    /\ resp.op = "delete"
    /\ resp.status = 200
    /\ resp.was_paired
    /\ resp.force
    /\ resp.unique_id \notin DOMAIN devices

(* the step is an administrative request that names unique_id i *)
AdminRequestFor(i) ==
    \/ get_sut(i)
    \/ pair_sut(i, DefaultUser)
    \/ unpair_sut(i)
    \/ \E n \in Names : set_display_name(i, n)
    \/ \E force \in BOOLEAN : delete_sut(i, force)
    \/ \E mgr_ok, g \in BOOLEAN : get_ssh_status(i, mgr_ok, g, g)
    \/ \E force, mgr_ok, g \in BOOLEAN : trigger_ssh_exchange(i, force, mgr_ok, g, g)

(* C15: pair, unpair, set display name, delete, get, SSH status and SSH key *)
(* exchange for a unique_id without a record report NotFound and have no    *)
(* side effect: records, ip index, persisted paired set, sessions, key      *)
(* store and Master key are unchanged and nothing is sent                   *)
C15_UnknownIdNoSideEffect ==
    [][\A i \in Ids \ DOMAIN devices :
         AdminRequestFor(i) =>
            /\ resp'.status = 404
            /\ resp'.unique_id = i
            /\ out' = <<>>
            /\ UNCHANGED <<devices, ip_to_id, paired_store, stale_timeout>>
            /\ UNCHANGED <<connections, session_seq, closed, ws>>
            /\ UNCHANGED <<trust_store, master_key>>]_vars

(* a request for an unknown id was answered NotFound while another device *)
(* has a record and a live session                                        *)
C15_Witness ==
    /\ resp.op \in {"get", "pair", "unpair", "display_name", "delete", "ssh_status",
                    "exchange"}
    /\ resp.status = 404
    /\ resp.unique_id \notin DOMAIN devices
    /\ DOMAIN devices # {}
    /\ DOMAIN connections # {}

(* C16: a pair request for a known device ends with is_paired = true and *)
(* succeeds, whatever the pairing state and paired_by before and whatever *)
(* paired_by it carries - so pair, unpair, pair ends paired - and on an   *)
(* already paired device it changes nothing; an unpair request ends with  *)
(* is_paired = false; neither touches any other record                    *)
C16_PairIdempotent ==
    [][\A i \in DOMAIN devices :
         /\ \A u \in Users \cup {DefaultUser} :
              pair_sut(i, u) =>
                 /\ resp'.status = 200
                 /\ devices'[i].is_paired
                 /\ devices[i].is_paired => devices' = devices
                 /\ ~devices[i].is_paired =>
                      devices' = [devices EXCEPT ![i].is_paired = TRUE,
                                                  ![i].paired_by = u]
         /\ unpair_sut(i) =>
              /\ resp'.status = 200
              /\ devices' = [devices EXCEPT ![i].is_paired = FALSE,
                                            ![i].paired_by = Missing]]_vars

(* a pair request of another operator met a device that is already paired: *)
(* it succeeded and the device is still paired, by the first operator       *)
C16_Witness ==
    /\ resp.op = "pair"
    /\ resp.status = 200
    /\ resp.unique_id \in DOMAIN devices
    /\ devices[resp.unique_id].is_paired
    /\ devices[resp.unique_id].paired_by # resp.paired_by

(* C17: the persisted paired-device set is exactly the set of unique_ids *)
(* whose record exists with is_paired = true, after every pair, unpair   *)
(* and forced delete (and after every other operation)                   *)
C17_PersistedPairedSet == paired_store = PairedIds(devices)

(* a paired device was deleted with force while another one stays paired *)
C17_Witness ==
    /\ resp.op = "delete"
    /\ resp.status = 200
    /\ resp.was_paired
    /\ resp.unique_id \notin paired_store
    /\ paired_store # {}

(* C18: the re_exchange flag of every register_ack is true if and only if *)
(* master_key_installed is false for that device when the ack is built,   *)
(* also when the Master key manager raised during key retrieval           *)
C18_ReExchangeIffNotInstalled ==
    [][\A i \in DOMAIN devices' :
         AcksRegistration(i) =>
            (out'[1].re_exchange <=> ~devices'[i].master_key_installed)]_vars

(* C19: a registration without an SSH public key is acknowledged with     *)
(* ssh_registered = false and does not involve the key store (the step is *)
(* the same whether the store works or not, and the store is unchanged);  *)
(* once the device has reported master_key_installed with success = true, *)
(* its record keeps master_key_installed = true with an installation time *)
(* until it is removed, and every SSH status query reports both           *)
C19_KeylessDeviceTrusted ==
    [][/\ \A t \in {u \in Transports : ws[u].pc = "await_init" /\ ws'[u].pc = "loop"},
             p \in {q \in KeyPayloads : q.ssh_public_key = Missing},
             store_ok, mgr_ok, g1, g2 \in BOOLEAN :
            ws_register(t, p, store_ok, mgr_ok, g1, g2) =>
               /\ ~out'[1].ssh_registered
               /\ trust_store' = trust_store
               /\ ws_register(t, p, ~store_ok, mgr_ok, g1, g2)
       /\ \A i \in DOMAIN devices' :
            /\ AcksKeyInstall(i, TRUE) =>
                 /\ devices'[i].master_key_installed
                 /\ devices'[i].master_key_installed_at # NoTime
            /\ (i \in DOMAIN devices /\ devices[i].master_key_installed) =>
                 /\ devices'[i].master_key_installed
                 /\ devices'[i].master_key_installed_at # NoTime
       /\ \A i \in {j \in DOMAIN devices : devices[j].master_key_installed},
             mgr_ok, g \in BOOLEAN :
            (resp'.op = "ssh_status" /\ get_ssh_status(i, mgr_ok, g, g)) =>
               /\ resp'.status = 200
               /\ resp'.master_key_installed
               /\ resp'.installed_at # NoTime]_vars

(* the status of a device that registered without a key and later reported *)
(* the installation is queried                                             *)
C19_Witness ==
    /\ resp.op = "ssh_status"
    /\ resp.status = 200
    /\ resp.master_key_installed
    /\ resp.installed_at # NoTime
    /\ ~resp.registered_on_master
    /\ devices[resp.unique_id].ssh_public_key = Missing
    /\ trust_store = <<>>

(* C20: the counters list_suts reports agree with the live device map:  *)
(* total is the number of records, online the number of records with    *)
(* is_online, offline = total - online, paired the number of records    *)
(* with is_paired; the listed devices are those the filter keeps        *)
C20_StatsAgreeWithMap ==
    [][\A f \in StatusFilters :
         list_suts(f) =>
            /\ resp'.total = Cardinality(DOMAIN devices)
            /\ resp'.online = Cardinality({i \in DOMAIN devices : devices[i].is_online})
            /\ resp'.offline = resp'.total - resp'.online
            /\ resp'.paired = Cardinality({i \in DOMAIN devices : devices[i].is_paired})
            /\ resp'.suts \subseteq DOMAIN devices
            /\ f = "online" => resp'.online = Cardinality(resp'.suts)
            /\ f = "offline" => resp'.offline = Cardinality(resp'.suts)
            /\ f = "paired" => resp'.paired = Cardinality(resp'.suts)
            /\ f \in {"none", "other"} => resp'.total = Cardinality(resp'.suts)
            /\ devices' = devices]_vars

(* one device registered, was paired, and its transport closed: the *)
(* counters are total 1, online 0, offline 1, paired 1               *)
C20_Witness ==
    /\ resp.op = "list"
    /\ resp.total = 1
    /\ resp.online = 0
    /\ resp.offline = 1
    /\ resp.paired = 1
    /\ \A t \in Transports : ws[t].pc = "idle"

(* the step admits the session of transport t *)
Connects(t) == ws[t].pc = "await_init" /\ ws'[t].pc = "loop"

(* the step ends the live session of unique_id i by a disconnect *)
EndsSession(i) == i \in DOMAIN connections /\ i \notin DOMAIN connections'

(* the events the step has to raise: WS_CONNECTED for the session it admits, *)
(* WS_DISCONNECTED for the session it ends                                   *)
EventsDue ==
    IF \E t \in Transports : Connects(t)
    THEN <<[type |-> "WS_CONNECTED",
            unique_id |-> ws[CHOOSE t \in Transports : Connects(t)].sut_id]>>
    ELSE IF \E i \in Ids : EndsSession(i)
    THEN <<[type |-> "WS_DISCONNECTED",
            unique_id |-> CHOOSE i \in Ids : EndsSession(i)]>>
    ELSE <<>>

(* the feed event of an Event Bus event *)
FeedEvent(event) ==
    [type |-> IF event.type = "WS_CONNECTED" THEN "sut_online" ELSE "sut_offline",
     data |-> event.unique_id]

(* C21: a step that admits a session raises exactly one WS_CONNECTED event  *)
(* for its unique_id, a step that ends a live session exactly one           *)
(* WS_DISCONNECTED event, and no other step raises an event; once the       *)
(* handlers of the feed are subscribed each event creates one task carrying *)
(* sut_online respectively sut_offline and the unique_id; every task is run *)
(* in the order of creation, and puts its event into the queue of every     *)
(* observer                                                                 *)
C21_EventsReachFeed ==
    /\ [][/\ bus' = EventsDue
          /\ sse_tasks' # sse_tasks =>
               \/ /\ sse_initialized
                  /\ Len(bus') = 1
                  /\ sse_tasks' = Append(sse_tasks, FeedEvent(bus'[1]))
               \/ /\ sse_tasks # <<>>
                  /\ sse_tasks' = Tail(sse_tasks)
                  /\ \A q \in sse_clients :
                       sse'[q].queue = Append(sse[q].queue, Head(sse_tasks))
          /\ (sse_initialized /\ bus' # <<>>) => sse_tasks' # sse_tasks]_vars
    /\ (sse_tasks # <<>>) ~> (sse_tasks = <<>>)

(* an observer is sent the sut_offline event of a device whose session ended *)
C21_Witness ==
    /\ Len(feed) = 1
    /\ feed[1].line = "data"
    /\ feed[1].event = [type |-> "sut_offline", data |-> "d1"]
    /\ "d1" \notin DOMAIN connections
    /\ ~devices["d1"].is_online

(* the handler of transport t leaves through the finally block, without *)
(* having admitted a session in the same step                           *)
OnlyDisconnects(t) ==
    /\ ws[t].pc \in {"await_init", "loop"}
    /\ ws'[t].pc = "idle"
    /\ session_seq' = session_seq

(* C22: a disconnect for a unique_id without a live session (never         *)
(* connected, or already disconnected) succeeds and changes nothing in the *)
(* connection manager: no session is removed or closed, no event is        *)
(* raised; a second disconnect right after a first one leaves the state    *)
(* the first one left                                                      *)
C22_DisconnectIdempotent ==
    [][/\ \A t \in Transports :
            (OnlyDisconnects(t) /\ ws[t].sut_id \notin DOMAIN connections) =>
               /\ connections' = connections
               /\ closed' = closed \ {t}
               /\ bus' = <<>>
               /\ sse_tasks' = sse_tasks
       /\ \A i \in Ids :
            LET once == cm_disconnect(connections, closed, i)
                twice == cm_disconnect(once.connections, once.closed, i)
            IN /\ twice.connections = once.connections
               /\ twice.closed = once.closed
               /\ twice.events = <<>>]_vars

(* the session of a transport was ended by the disconnect of another handler *)
(* of the same unique_id; its own handler has yet to disconnect              *)
C22_Witness ==
    \E t \in Transports :
        /\ ws[t].pc = "loop"
        /\ t \in closed
        /\ ws[t].sut_id \notin DOMAIN connections
        /\ ~devices[ws[t].sut_id].is_online

(* the key exchange request for device i gets as far as send_to_device *)
ReachesSend(i, force, mgr_ok) ==
    /\ i \in DOMAIN devices
    /\ devices[i].is_online
    /\ ~ExchangeAlreadyInstalled(devices[i], force)
    /\ mgr_ok

(* C23: a send to a device without a live session returns false and changes *)
(* nothing: no message leaves, no session, transport or record changes; a   *)
(* key exchange request whose send returned false reports failure (a       *)
(* server error) and leaves the device record, master_key_installed         *)
(* included, as it was                                                      *)
C23_SendFalseNoEffect ==
    [][\A i \in Ids \ DOMAIN connections, force, mgr_ok \in BOOLEAN :
         (resp'.op = "exchange" /\ trigger_ssh_exchange(i, force, mgr_ok, TRUE, TRUE)) =>
            /\ out' = <<>>
            /\ ~resp'.sent
            /\ UNCHANGED <<devices, ip_to_id, paired_store>>
            /\ UNCHANGED <<connections, session_seq, closed, ws>>
            /\ ReachesSend(i, force, mgr_ok) => resp'.status = 500]_vars

(* the exchange was requested for a device whose record is still online *)
(* while its session is gone, with the Master key at hand: the send     *)
(* returned false and the request failed                                *)
C23_Witness ==
    /\ resp.op = "exchange"
    /\ resp.status = 500
    /\ ~resp.sent
    /\ master_key
    /\ resp.unique_id \in DOMAIN devices
    /\ devices[resp.unique_id].is_online
    /\ resp.unique_id \notin DOMAIN connections

(* the messages of the step that go to the session of unique_id i *)
SentTo(i) == {k \in 1..Len(out') : out'[k].to = connections[i]}

(* C24: a broadcast reports exactly one result per session live at the    *)
(* call; the result of a device is false exactly when its own delivery    *)
(* failed, whatever happened to the other devices, and every device whose *)
(* delivery did not fail is sent exactly one update_available message;    *)
(* notified is the number of true results, total_connected the number of  *)
(* results; the broadcast changes no session and no record                *)
C24_BroadcastIsolated ==
    [][\A fails \in SUBSET Ids :
         (resp'.op = "broadcast" /\ broadcast_update(fails)) =>
            /\ DOMAIN resp'.results = DOMAIN connections
            /\ \A i \in DOMAIN connections :
                 /\ resp'.results[i] <=> i \notin fails
                 /\ Cardinality(SentTo(i)) = IF i \in fails THEN 0 ELSE 1
                 /\ \A others \in SUBSET (Ids \ {i}) :
                      cm_broadcast(connections, (fails \cap {i}) \cup others)[i]
                         = resp'.results[i]
            /\ Len(out') = resp'.notified
            /\ \A k \in 1..Len(out') : out'[k].type = "update_available"
            /\ resp'.notified =
                 Cardinality({i \in DOMAIN connections : resp'.results[i]})
            /\ resp'.total_connected = Cardinality(DOMAIN connections)
            /\ UNCHANGED <<devices, ip_to_id, paired_store>>
            /\ UNCHANGED <<connections, session_seq, closed, ws>>]_vars

(* an update was broadcast to two connected devices; one delivery failed, *)
(* the other device was notified                                          *)
C24_Witness ==
    /\ resp.op = "broadcast"
    /\ resp.total_connected = 2
    /\ resp.notified = 1
    /\ Len(out) = 1
    /\ \E i \in DOMAIN connections :
         /\ resp.results[i]
         /\ out[1].to = connections[i]
         /\ \E j \in DOMAIN connections : ~resp.results[j]

(* the step runs a broadcast_sse_event task *)
RunsBroadcast == sse_tasks # <<>> /\ sse_tasks' = Tail(sse_tasks)

(* C25: publishing never blocks: a handler that admits or ends a session   *)
(* can take its step whatever the observers and their queues are, and the  *)
(* step leaves the queues alone; a created broadcast task can always run,  *)
(* and when it runs it puts the event at the end of the queue of every     *)
(* observer in one step, however many events an observer has left undrained *)
C25_PublishNeverBlocks ==
    /\ [](/\ sse_tasks # <<>> => ENABLED broadcast_sse_event
          /\ \A t \in Transports :
               /\ ws[t].pc = "await_init" =>
                    ENABLED (\E p \in OneIpPayloads :
                                ws_register(t, p, TRUE, TRUE, TRUE, TRUE))
               /\ ws[t].pc \in {"await_init", "loop"} => ENABLED ws_disconnect(t))
    /\ [][/\ RunsBroadcast =>
               /\ sse_clients' = sse_clients
               /\ \A q \in Streams :
                    sse'[q] = IF q \in sse_clients
                              THEN [sse[q] EXCEPT !.queue = Append(@, Head(sse_tasks))]
                              ELSE sse[q]
          /\ bus' # <<>> => UNCHANGED <<sse, sse_clients>>]_vars

(* one observer has drained its queue and is sent the second event while *)
(* the other has not taken any                                           *)
C25_Witness ==
    /\ Len(feed) = 1
    /\ feed[1].line = "data"
    /\ feed[1].event.type = "sut_offline"
    /\ sse[feed[1].to].queue = <<>>
    /\ \E q \in sse_clients : q # feed[1].to /\ Len(sse[q].queue) = 2

(* C26: an observer that has disconnected is eventually removed from    *)
(* _sse_clients; a queue is removed only at the end of its stream or    *)
(* when an enqueue failed; once removed it is never entered again and   *)
(* no event is put into it; a queue enters the set only when its stream *)
(* starts                                                               *)
C26_ObserverRemoved ==
    /\ \A s \in Streams : (sse[s].pc = "gone") ~> (s \notin sse_clients)
    /\ [][\A s \in Streams :
            /\ sse[s].pc = "done" => s \notin sse_clients' /\ sse'[s] = sse[s]
            /\ sse'[s].pc = "done" => s \notin sse_clients'
            /\ (s \in sse_clients' /\ s \notin sse_clients) => sse[s].pc = "start"
            /\ (s \in sse_clients /\ s \notin sse_clients') =>
                 \/ sse[s].pc = "gone" /\ sse'[s].pc = "done"
                 \/ RunsBroadcast /\ ~QueueAccepts(sse[s].queue)]_vars

(* an observer has left and was removed; an event published afterwards *)
(* went to the remaining observer only                                 *)
C26_Witness ==
    \E s \in Streams, q \in sse_clients :
        /\ sse[s].pc = "done"
        /\ s \notin sse_clients
        /\ sse[s].queue = <<[type |-> "sut_online", data |-> "d1"]>>
        /\ sse[q].pc = "stream"
        /\ sse[q].queue = <<[type |-> "sut_online", data |-> "d1"],
                            [type |-> "sut_offline", data |-> "d1"]>>

(* the step writes a line of this kind to the observer of stream s *)
Writes(s, line) == Len(feed') = 1 /\ feed'[1].to = s /\ feed'[1].line = line

(* C27: a keepalive is written to an observer only when the idle interval *)
(* has passed since the last line on its channel, and it leaves the queue *)
(* as it is; an event leaves a queue only by being written to its         *)
(* observer, in the order of arrival, and every event in the queue of a   *)
(* streaming observer is eventually written                               *)
C27_KeepaliveOnlyWhenIdle ==
    /\ [][\A s \in Streams :
            /\ Writes(s, "keepalive") =>
                 /\ now - sse[s].last_line >= KeepaliveInterval
                 /\ sse'[s].queue = sse[s].queue
            /\ sse'[s].queue # sse[s].queue =>
                 \/ RunsBroadcast /\ sse'[s].queue = Append(sse[s].queue, Head(sse_tasks))
                 \/ /\ Writes(s, "data")
                    /\ feed'[1].event = Head(sse[s].queue)
                    /\ sse'[s].queue = Tail(sse[s].queue)]_vars
    /\ \A s \in Streams :
         (sse[s].pc = "stream" /\ sse[s].queue # <<>>) ~>
            (Len(feed) = 1 /\ feed[1].to = s /\ feed[1].line = "data")

(* the wait of an observer timed out as an event arrived: the keepalive *)
(* was written and the event is still in the queue, while the other    *)
(* observer has been sent the event                                    *)
C27_Witness ==
    /\ Len(feed) = 1
    /\ feed[1].line = "keepalive"
    /\ sse[feed[1].to].queue = <<[type |-> "sut_online", data |-> "d1"]>>
    /\ sse[feed[1].to].last_line = now
    /\ \E q \in sse_clients : q # feed[1].to /\ sse[q].queue = <<>> /\ sse[q].last_line # NoTime

(* a call of the Master key manager has returned *)
ManagerCall == {"ensure_key_exists", "test_connection", "execute_on_sut"}

(* C28: the Master key pair is generated at most once: a successful call   *)
(* of ensure_key_exists with the pair absent creates it; once the pair is  *)
(* present no step generates again or removes it, so the key material      *)
(* (the count of generations names it) stays the same, and no later call   *)
(* of the manager reports the key as unavailable                           *)
C28_GeneratedAtMostOnce ==
    [][/\ key_generations' \in {key_generations, key_generations + 1}
       /\ key_generations' # key_generations => ~master_key /\ master_key'
       /\ master_key => master_key' /\ key_generations' = key_generations
       /\ master_key' => key_generations' = 1
       /\ (resp' # NoResp /\ resp'.op = "ensure_key_exists") =>
             /\ (~master_key /\ resp'.success) =>
                   master_key' /\ key_generations' = key_generations + 1
             /\ master_key => resp'.success /\ resp'.message = "Key already exists"
       /\ (resp' # NoResp /\ resp'.op \in {"test_connection", "execute_on_sut"}
            /\ master_key) => resp'.message # "key_unavailable"]_vars

(* ensure_key_exists is called with the pair present and returns success; *)
(* the pair is the one generated by an earlier call, known to a session   *)
C28_Witness ==
    /\ resp # NoResp
    /\ resp.op = "ensure_key_exists"
    /\ resp.success
    /\ resp.message = "Key already exists"
    /\ key_generations = 1
    /\ master_key
    /\ connections # EmptyDict

(* test_connection or execute_on_sut has run in this step *)
ShellCall == resp' # NoResp /\ resp'.op \in {"test_connection", "execute_on_sut"}

(* what the two operations return when they return: test_connection    *)
(* succeeds exactly when the ssh subprocess was run and ended with     *)
(* status 0 and the echo; with the key pair unavailable no connection  *)
(* is attempted and the result is a failure; a timeout is a failure    *)
ShellResultsAsDesigned ==
    /\ resp'.op = "test_connection" =>
          (resp'.success <=> resp'.attempted /\ resp'.outcome = "echo")
    /\ ~master_key' => ~resp'.attempted /\ ~resp'.success
    /\ (resp'.attempted /\ resp'.outcome = "timeout") => ~resp'.success

(* C29: test_connection and execute_on_sut never raise, and return the *)
(* results of the design: success of test_connection iff status 0 and  *)
(* the echo, failure without a connection attempt when the key pair    *)
(* could not be generated, failure on a timeout                        *)
C29_ShellOpsNeverRaise ==
    [][ShellCall => ~resp'.raised /\ ShellResultsAsDesigned]_vars

(* the part of C29 that the code keeps: the results of the calls that *)
(* return                                                             *)
C29_ReturnedResults ==
    [][ShellCall /\ ~resp'.raised => ShellResultsAsDesigned]_vars

(* test_connection was called without a username, the key pair is there, *)
(* and the user of the process could not be determined                   *)
C29_Raised ==
    /\ resp # NoResp
    /\ resp.op = "test_connection"
    /\ ~resp.has_user
    /\ resp.raised
    /\ master_key

(* the entries of the key store that hold this key *)
Entries(store, public_key) == {i \in DOMAIN store : store[i].public_key = public_key}

(* addKey twice with the same key and owner, on this store *)
AddedTwice(store, public_key, owner_id) ==
    LET first == add_key(store, public_key, owner_id, now)
        second == add_key(first.store, public_key, owner_id, now)
    IN
    /\ first.success /\ second.success
    /\ second.store = first.store
    /\ Cardinality(Entries(second.store, public_key)) = 1

(* C30: addKey called twice with the same well-formed key for the same    *)
(* owner succeeds both times and leaves exactly one entry for the key;    *)
(* a device that registers with a well-formed key, for the first time or  *)
(* again, is told ssh_registered = true, and afterwards the store holds   *)
(* exactly one entry for that key: the entries it held, and a new last    *)
(* entry only when the key was not stored                                 *)
C30_AddKeyIdempotent ==
    /\ [](\A k \in StoreKeys \ {MalformedKey}, i \in Ids : AddedTwice(trust_store, k, i))
    /\ [](\A k \in StoreKeys : Cardinality(Entries(trust_store, k)) <= 1)
    /\ [][\A t \in {u \in Transports : ws[u].pc = "await_init" /\ ws'[u].pc = "loop"},
            p \in StorePayloads :
           (KeyFormatOk(p.ssh_public_key) /\ ws_register(t, p, TRUE, TRUE, TRUE, TRUE)) =>
              /\ out'[1].ssh_registered
              /\ Cardinality(Entries(trust_store', p.ssh_public_key)) = 1
              /\ IF Entries(trust_store, p.ssh_public_key) # {}
                 THEN trust_store' = trust_store
                 ELSE /\ Len(trust_store') = Len(trust_store) + 1
                      /\ SubSeq(trust_store', 1, Len(trust_store)) = trust_store
                      /\ trust_store'[Len(trust_store')].unique_id = ws[t].sut_id]_vars

(* d1 registers again with the key it registered at an earlier time: it is *)
(* told ssh_registered = true and the store holds the one entry of then    *)
C30_Witness ==
    /\ Len(out) = 1
    /\ out[1].type = "register_ack"
    /\ out[1].sut_id = "d1"
    /\ out[1].ssh_registered
    /\ out[1].session_id >= 2
    /\ devices["d1"].ssh_public_key = "k1"
    /\ trust_store = <<[public_key |-> "k1", unique_id |-> "d1", registered_at |-> 0]>>
    /\ now > 0

(* the ips of the session on transport t: the ip of its payload and the *)
(* ip of the record of its device                                       *)
SessionIps(t) ==
    {HeartbeatIp(t)} \cup
    (IF ws[t].sut_id \in DOMAIN devices THEN {devices[ws[t].sut_id].ip} ELSE {})

(* the ip index entries under the ips in `mine` apart, the index stays *)
IndexElsewhereUnchanged(mine) ==
    \A a \in (DOMAIN ip_to_id \cup DOMAIN ip_to_id') \ mine :
        a \in DOMAIN ip_to_id /\ a \in DOMAIN ip_to_id' /\ ip_to_id'[a] = ip_to_id[a]

(* the record, the session, the pairing and the handlers of every device *)
(* but `a` stay as they are in this step                                 *)
OthersUnchanged(a) ==
    \A b \in Ids \ {a} :
        /\ (b \in DOMAIN devices') <=> (b \in DOMAIN devices)
        /\ b \in DOMAIN devices => devices'[b] = devices[b]
        /\ (b \in DOMAIN connections') <=> (b \in DOMAIN connections)
        /\ b \in DOMAIN connections => connections'[b] = connections[b]
        /\ (b \in paired_store') <=> (b \in paired_store)
        /\ \A u \in Transports :
              (ws[u].pc # "idle" /\ ws[u].sut_id = b) =>
                 ws'[u] = ws[u] /\ ((u \in closed') <=> (u \in closed))

(* a message of the loop, a malformed message or a transport failure is *)
(* handled on transport t in this step                                  *)
SessionEvent(t) ==
    \/ ws_heartbeat(t)
    \/ \E success \in BOOLEAN : ws_master_key_installed(t, success)
    \/ ws_other_message(t)
    \/ ws_bad_message(t)
    \/ ws_disconnect(t)
    \/ ws_register_bad_json(t)
    \/ ws_register_not_object(t)

WithOverride == {r \in CleanupRequests : r.body /\ r.has_timeout}

(* the sweep of this step tested staleness against `timeout` *)
SweptWith(timeout) ==
    /\ resp'.timeout_used_seconds = timeout
    /\ (DOMAIN devices) \ (DOMAIN devices') =
          {i \in DOMAIN devices : IsStale(devices[i], timeout)}

(* C32: a cleanup request with a timeout override t sweeps with t and  *)
(* reports timeout_used = t, for every supplied t including 0; without *)
(* an override the configured stale timeout is used                    *)
C32_OverrideUsed ==
    [][\A r \in CleanupRequests :
         cleanup_stale_devices(r) =>
            IF r \in WithOverride THEN SweptWith(r.timeout_seconds)
            ELSE SweptWith(stale_timeout)]_vars

(* the part of C32 the code keeps: an override other than 0 is used, *)
(* and without an override the configured stale timeout is used      *)
C32_NonzeroOverrideUsed ==
    [][\A r \in CleanupRequests :
         cleanup_stale_devices(r) =>
            IF r \in WithOverride /\ r.timeout_seconds # 0
            THEN SweptWith(r.timeout_seconds)
            ELSE SweptWith(stale_timeout)]_vars

(* a sweep reported the configured timeout, which is not 0, and kept an *)
(* unpaired offline record that a sweep with the timeout 0 removes     *)
C32_OverrideZeroIgnored ==
    /\ resp.op = "cleanup"
    /\ resp.timeout_used_seconds = stale_timeout
    /\ stale_timeout # 0
    /\ \E i \in DOMAIN devices : IsStale(devices[i], 0) /\ ~IsStale(devices[i], stale_timeout)

(* the handler on transport t leaves in this step before its registration *)
(* is complete: the transport closed, or the first message was malformed  *)
FailsBeforeRegistration(t) ==
    /\ ws[t].pc = "await_init"
    /\ ws_disconnect(t) \/ ws_register_bad_json(t) \/ ws_register_not_object(t)

(* the session the connection manager holds for the id, and whether its *)
(* transport is open, stay as they are                                  *)
SessionKept(i) ==
    /\ (i \in DOMAIN connections') <=> (i \in DOMAIN connections)
    /\ i \in DOMAIN connections =>
          /\ connections'[i] = connections[i]
          /\ (connections[i] \in closed') <=> (connections[i] \in closed)

(* C34: a transport that closes or fails before its registration is      *)
(* complete creates no record and leaves the record, the online state    *)
(* and the live session of a device registered under the same unique_id  *)
(* unchanged                                                             *)
C34_NoPartialRegistration ==
    [][\A t \in Transports :
         FailsBeforeRegistration(t) =>
            /\ devices' = devices
            /\ ip_to_id' = ip_to_id
            /\ SessionKept(ws[t].sut_id)]_vars

(* the part of C34 the code keeps: no record is created and no field but *)
(* is_online changes, the index is left alone, and nothing changes at    *)
(* all when the id has no session                                        *)
C34_NoRecordCreated ==
    [][\A t \in Transports :
         FailsBeforeRegistration(t) =>
            /\ DOMAIN devices' = DOMAIN devices
            /\ \A i \in DOMAIN devices :
                  [devices'[i] EXCEPT !.is_online = devices[i].is_online] = devices[i]
            /\ ip_to_id' = ip_to_id
            /\ ws[t].sut_id \notin DOMAIN connections =>
                  devices' = devices /\ connections' = connections]_vars

(* a handler that never received a registration has left, and a device *)
(* whose own handler is still in its loop is offline without a session *)
C34_LiveSessionLost ==
    \E t \in Transports :
        /\ ws[t].pc = "loop"
        /\ session_seq[ws[t].sut_id] = 1
        /\ ws[t].sut_id \in DOMAIN devices
        /\ ~devices[ws[t].sut_id].is_online
        /\ ws[t].sut_id \notin DOMAIN connections

(* the handler on transport t, whose session was superseded by a newer *)
(* session of the same unique_id, leaves in this step                  *)
SupersededLeaves(t) ==
    /\ ws[t].pc = "loop"
    /\ ws[t].sut_id \in DOMAIN connections
    /\ connections[ws[t].sut_id] # t
    /\ ws_disconnect(t)

(* C35: the teardown of a superseded session neither removes the new   *)
(* session of the unique_id from the connection manager nor marks the  *)
(* device offline                                                      *)
C35_SupersededTeardownHarmless ==
    [][\A t \in Transports :
         SupersededLeaves(t) =>
            /\ SessionKept(ws[t].sut_id)
            /\ ws[t].sut_id \in DOMAIN devices =>
                  devices'[ws[t].sut_id].is_online = devices[ws[t].sut_id].is_online]_vars

(* a device registered under ip1 and then, on a new session, under ip2, *)
(* and the handler of its first session has left: the handler of the   *)
(* second session is still in its loop, yet its transport was closed,  *)
(* the device is offline and has no session                            *)
C35_NewSessionLost ==
    \E t \in Transports :
        /\ ws[t].pc = "loop"
        /\ t \in closed
        /\ ws[t].ip = "ip2"
        /\ ws[t].sut_id \in DOMAIN devices
        /\ devices[ws[t].sut_id].binding_history = <<"ip2">>
        /\ session_seq[ws[t].sut_id] = 2
        /\ ws[t].sut_id \in DOMAIN devices
        /\ devices[ws[t].sut_id].session_id = 2
        /\ ~devices[ws[t].sut_id].is_online
        /\ ws[t].sut_id \notin DOMAIN connections
        /\ \A u \in Transports \ {t} : ws[u].pc = "idle"

(* the record of i is absent before the step and there after it *)
Appears(i) == i \notin DOMAIN devices /\ i \in DOMAIN devices'

(* a handler with the unique_id i receives its registration payload in *)
(* this step                                                           *)
Registers(i) ==
    \E t \in Transports :
        ws[t].sut_id = i /\ ws[t].pc = "await_init" /\ ws'[t].pc = "loop"

(* C36: a record that was removed, or never existed, comes into being *)
(* only when a transport session delivers a registration payload for  *)
(* its unique_id; a heartbeat does not create it                      *)
C36_RemovedIsTerminal ==
    [][\A i \in Ids : Appears(i) => Registers(i)]_vars

(* the part of C36 the code keeps: a record comes into being only by a *)
(* registration payload or a heartbeat of a session of its unique_id   *)
C36_AppearsByUpsert ==
    [][\A i \in Ids :
         Appears(i) =>
            \/ Registers(i)
            \/ \E t \in Transports : ws[t].sut_id = i /\ ws_heartbeat(t)]_vars

(* a is the end of b *)
IsSuffix(a, b) ==
    /\ Len(a) <= Len(b)
    /\ \A k \in 1..Len(a) : a[k] = b[Len(b) - Len(a) + k]

(* the events the observer of stream s has still to be sent: those in its *)
(* queue, then those of the tasks that have not run yet                   *)
Pending(s) == sse[s].queue \o sse_tasks

(* the step runs the oldest broadcast_sse_event task *)
TaskRuns == sse_tasks # <<>> /\ sse_tasks' = Tail(sse_tasks)

(* C37: the handlers of the feed are subscribed at most once, however many *)
(* observers open the feed, so that a published event creates one task;    *)
(* the task puts the event exactly once at the end of the queue of every   *)
(* observer in the set and into no other queue; a queue changes otherwise  *)
(* only by its observer being sent the oldest event, so that every         *)
(* observer is sent the events in the order of publication                 *)
C37_EnqueuedOncePerObserver ==
    /\ [][/\ sse_subscriptions' = (IF sse_initialized' THEN 1 ELSE 0)
          /\ (sse_initialized /\ bus' # <<>>) =>
                sse_tasks' = sse_tasks \o [k \in 1..Len(bus') |-> FeedEvent(bus'[k])]
          /\ TaskRuns =>
                \A s \in Streams :
                    sse'[s].queue = IF s \in sse_clients
                                    THEN Append(sse[s].queue, Head(sse_tasks))
                                    ELSE sse[s].queue
          /\ ~TaskRuns =>
                \A s \in Streams :
                    \/ sse'[s].queue = sse[s].queue
                    \/ /\ sse[s].queue # <<>>
                       /\ sse'[s].queue = Tail(sse[s].queue)
                       /\ feed' = <<[to |-> s, line |-> "data",
                                     event |-> Head(sse[s].queue)]>>]_vars
    /\ [](\A s \in sse_clients, q \in sse_clients :
            IsSuffix(Pending(s), Pending(q)) \/ IsSuffix(Pending(q), Pending(s)))

(* two observers have opened the feed, a device connected and left, and the *)
(* queue of either observer holds sut_online, then sut_offline, once each   *)
C37_Witness ==
    /\ sse_clients = Streams
    /\ Cardinality(Streams) >= 2
    /\ sse_subscriptions = 1
    /\ sse_tasks = <<>>
    /\ \A s \in Streams :
          sse[s].queue = <<[type |-> "sut_online", data |-> "d1"],
                           [type |-> "sut_offline", data |-> "d1"]>>

(* the step answers a key exchange request for i made with these inputs *)
ExchangeRequest(i, force, mgr_ok, g) ==
    resp'.op = "exchange" /\ trigger_ssh_exchange(i, force, mgr_ok, g, g)

(* C38: a key exchange request without force for an online device whose    *)
(* master_key_installed is true sends nothing and changes no state, and    *)
(* answers success with the time recorded for the installation; a key      *)
(* exchange request sends a message only when the key is not installed or  *)
(* force is true                                                           *)
C38_InstalledExchangeIsNoOp ==
    [][\A i \in Ids, force, mgr_ok, g \in BOOLEAN :
         ExchangeRequest(i, force, mgr_ok, g) =>
            /\ ( /\ i \in DOMAIN devices
                 /\ devices[i].is_online
                 /\ devices[i].master_key_installed
                 /\ ~force ) =>
                    /\ out' = <<>>
                    /\ resp'.status = 200
                    /\ ~resp'.sent
                    /\ resp'.installed_at = devices[i].master_key_installed_at
                    /\ resp'.installed_at # NoTime
                    /\ UNCHANGED <<registry_vars, cm_vars, trust_store, ws>>
                    /\ UNCHANGED <<master_key, key_generations, sse_tasks>>
            /\ out' # <<>> =>
                    /\ i \in DOMAIN devices
                    /\ ~devices[i].master_key_installed \/ force]_vars

(* an unforced request for an online device with a live session, whose key *)
(* is installed, was answered with the time of the installation and sent   *)
(* nothing                                                                 *)
C38_Witness ==
    /\ resp.op = "exchange"
    /\ ~resp.force
    /\ resp.status = 200
    /\ ~resp.sent
    /\ out = <<>>
    /\ resp.unique_id \in DOMAIN devices
    /\ devices[resp.unique_id].is_online
    /\ devices[resp.unique_id].master_key_installed
    /\ resp.unique_id \in DOMAIN connections
    /\ resp.installed_at = devices[resp.unique_id].master_key_installed_at

(* the steps that end the run when they fail *)
FatalSteps == {"install_openssh", "start_sshd"}

(* the step listed at position k of the results failed and is fatal *)
FatalFailure(k) ==
    setup.steps[k].step \in FatalSteps /\ ~setup.steps[k].success

(* the run is over *)
SetupOver == setup.pc \in {"returned", "raised"}

(* C39: run_full_setup lists its steps in the order install_openssh,        *)
(* start_sshd, enable_autostart, configure_firewall, set_network_private,   *)
(* one a step; a failed install_openssh or start_sshd is the last step      *)
(* listed, and the run has returned with success false; success is false    *)
(* only then, or off Windows with no step run; after a failure of one of    *)
(* the other steps success stays true and the run goes on until all five    *)
(* steps are listed                                                         *)
C39_SetupStepOrder ==
    /\ [](\A k \in 1..Len(setup.steps) :
            /\ setup.steps[k].step =
                  <<"install_openssh", "start_sshd", "enable_autostart",
                    "configure_firewall", "set_network_private">>[k]
            /\ FatalFailure(k) =>
                  /\ k = Len(setup.steps)
                  /\ setup.pc = "returned"
                  /\ ~setup.success
                  /\ setup.error = setup.steps[k].message)
    /\ [](~setup.success =>
            /\ setup.pc = "returned"
            /\ setup.steps = <<>> \/ FatalFailure(Len(setup.steps)))
    /\ [][/\ SetupOver => setup' = setup
          /\ \/ setup'.steps = setup.steps
             \/ /\ Len(setup'.steps) = Len(setup.steps) + 1
                /\ SubSeq(setup'.steps, 1, Len(setup.steps)) = setup.steps]_vars
    /\ \A k \in 3..5 :
          (Len(setup.steps) = k /\ ~setup.steps[k].success)
             ~> (Len(setup.steps) = 5 /\ setup.success)

(* a run on Windows in which the last three steps all failed has listed all *)
(* five steps and returned success                                          *)
C39_Witness ==
    /\ setup.pc = "returned"
    /\ setup.success
    /\ setup.error = Missing
    /\ setup.status # Missing
    /\ Len(setup.steps) = 5
    /\ \A k \in 3..5 : ~setup.steps[k].success

====
